---- MODULE Spec2Model ----
(***************************************************************************)
(* Model of the decision_robustness simulation pipeline:                   *)
(*   engine/world.py      WorldState, World                                *)
(*   engine/events.py     Event, SimpleEventGenerator                      *)
(*   engine/simulator.py  Simulator.run                                    *)
(*   policies/base.py     Policy, RandomPolicy                             *)
(*   swarm/executor.py    SwarmExecutor.run / run_sequential               *)
(*                                                                         *)
(* Python lists are objects with identity: a shallow dict copy keeps the   *)
(* reference.  The model keeps every list of event occurrences in `heap`   *)
(* and stores its index (a reference) in metadata["events_occurred"].      *)
(* Probabilities, severities and scores are in tenths (10 is 1.0).         *)
(***************************************************************************)
EXTENDS Integers, Sequences, FiniteSets, TLC

\* ------------------------------------------------------------------ bounds
MaxSteps == 3     \* largest Simulator.max_steps explored
MaxRuns == 2      \* Simulator.run calls made in a row on one Simulator
MaxSeed == 1      \* seeds 0..MaxSeed are passed to Simulator.run
MaxWorlds == 2    \* largest SwarmConfig.n_worlds explored
MaxWorkers == 2   \* largest SwarmConfig.max_workers explored

\* ---------------------------------------------------------- Python values
None == "None"
RngModulus == 16

Min(a, b) == IF a < b THEN a ELSE b
Max(a, b) == IF a > b THEN a ELSE b

EmptyDict == [k \in {} |-> 0]

\* dict.update / {**a, **b}
DictUpdate(a, b) ==
    [k \in (DOMAIN a) \cup (DOMAIN b) |-> IF k \in DOMAIN b THEN b[k] ELSE a[k]]

\* ------------------------------------------------------------- WorldState
SpecialFields == {"timestep", "is_terminal", "terminal_reason", "metadata"}

WorldState(timestep, variables, is_terminal, terminal_reason, metadata) ==
    [timestep |-> timestep, variables |-> variables, is_terminal |-> is_terminal,
     terminal_reason |-> terminal_reason, metadata |-> metadata]

\* WorldState.evolve(**updates): metadata is copied shallowly (dict(self.metadata)),
\* so a list reference stored in it is shared with the new state.
Evolve(s, updates) ==
    LET special == [k \in (DOMAIN updates) \cap SpecialFields |-> updates[k]]
        rest == [k \in (DOMAIN updates) \ SpecialFields |-> updates[k]]
        get(k, default) == IF k \in DOMAIN special THEN special[k] ELSE default
    IN WorldState(get("timestep", s.timestep),
                  DictUpdate(s.variables, rest),
                  get("is_terminal", s.is_terminal),
                  get("terminal_reason", s.terminal_reason),
                  get("metadata", s.metadata))

is_success(s) == s.is_terminal /\ s.terminal_reason = "success"
is_failed(s) == s.is_terminal /\ s.terminal_reason = "failure"

\* ------------------------------------------------------------------- RNG
\* np.random.default_rng(seed): a deterministic stream per seed, here a
\* full-period linear congruential generator over 0..RngModulus-1.
CreateRng(seed) == seed % RngModulus
RngAdvance(x) == (5 * x + 3) % RngModulus
\* Generator.random(): a value in [0,1), in tenths.
RngRandom(x) == (RngAdvance(x) * 10) \div RngModulus
\* Generator.integers(0, n)
RngIntegers(x, n) == RngAdvance(x) % n

\* ----------------------------------------------------------------- Event
Event(name, probability, severity, is_irreversible, cooldown) ==
    [name |-> name, probability |-> probability, severity |-> severity,
     is_irreversible |-> is_irreversible, cooldown |-> cooldown]

\* A probability modifier registered under an event's name is kept with the
\* event, as the field modifier; the multiplier it returns for a state, in tenths
Multiplier(modifier, state) ==
    CASE modifier = "half" -> 5
      [] modifier = "double" -> 20
      [] modifier = "negative" -> 0 - 10
      [] modifier = "late" -> IF state.timestep > 0 THEN 20 ELSE 0

WithModifier(event, modifier) == DictUpdate(event, [modifier |-> modifier])

EffectiveProbabilityAdding(event, state) ==
    IF "modifier" \in DOMAIN event
    THEN Min(100, Max(0, 10 * event.probability + 10 * Multiplier(event.modifier, state)))
    ELSE Min(100, Max(0, 10 * event.probability))

\* SimpleEventGenerator._get_effective_probability, in hundredths
EffectiveProbability(event, state) ==
    IF "modifier" \in DOMAIN event
    THEN Min(100, Max(0, event.probability * Multiplier(event.modifier, state)))
    ELSE Min(100, Max(0, 10 * event.probability))

InCooldownThrough(event, timestep, cooldowns) ==
    event.name \in DOMAIN cooldowns /\ timestep <= cooldowns[event.name]

\* lines 165-168: the cooldown test
InCooldown(event, timestep, cooldowns) ==
    event.name \in DOMAIN cooldowns /\ timestep < cooldowns[event.name]

\* SimpleEventGenerator.sample_events: the loop over self._events.values(),
\* from the i-th event on.  An event in cooldown is skipped before its draw.
RECURSIVE SampleFrom(_, _, _, _, _, _)
SampleFrom(events, i, state, rng, cooldowns, occurred) ==
    IF i > Len(events)
    THEN [occurred |-> occurred, rng |-> rng, cooldowns |-> cooldowns]
    ELSE LET event == events[i]
             timestep == state.timestep
         IN IF InCooldown(event, timestep, cooldowns)
            THEN SampleFrom(events, i + 1, state, rng, cooldowns, occurred)
            ELSE LET fires == 10 * RngRandom(rng) < EffectiveProbability(event, state)
                 IN SampleFrom(events, i + 1, state, RngAdvance(rng),
                        IF fires /\ event.cooldown > 0
                        THEN DictUpdate(cooldowns,
                                 [k \in {event.name} |-> timestep + event.cooldown])
                        ELSE cooldowns,
                        IF fires THEN Append(occurred, event) ELSE occurred)

SampleEvents(events, state, rng, cooldowns) ==
    SampleFrom(events, 1, state, rng, cooldowns, <<>>)

\* The record the default handler appends.
OccurrenceRecord(event, state) ==
    [name |-> event.name, timestep |-> state.timestep, severity |-> event.severity]

\* SimpleEventGenerator.apply_event, default handler: new_metadata is a shallow
\* copy, so .get("events_occurred", []) returns the list object the given state
\* holds (when it holds one) and .append changes that object in place.
ApplyEvent(state, event, hp) ==
    LET has == "events_occurred" \in DOMAIN state.metadata
        ref == IF has THEN state.metadata["events_occurred"] ELSE Len(hp) + 1
        hp1 == IF has THEN hp ELSE Append(hp, <<>>)
        hp2 == [hp1 EXCEPT ![ref] = Append(@, OccurrenceRecord(event, state))]
        new_metadata == DictUpdate(state.metadata, [events_occurred |-> ref])
    IN [state |-> Evolve(state, [metadata |-> new_metadata]), heap |-> hp2]

RECURSIVE ApplyAll(_, _, _, _)
ApplyAll(occurred, i, state, hp) ==
    IF i > Len(occurred) THEN [state |-> state, heap |-> hp]
    ELSE LET r == ApplyEvent(state, occurred[i], hp)
         IN ApplyAll(occurred, i + 1, r.state, r.heap)

\* ----------------------------------------------------------------- World
\* A World implementation: the ramp world of the tests (SimpleWorld), with an
\* event generator as in ProjectWorld.  wc is its construction-time
\* configuration: the events, whether initial_state() carries an
\* events_occurred list, the reason check_terminal gives at the upper
\* threshold, and the value (if any) at which no action is available.
NoValue == 0 - 1
\* seed = None
NoSeed == 0 - 1

\* World.reset(seed)
WorldReset(w, seed) ==
    LET s == IF seed # NoSeed THEN seed ELSE w.seed
    IN [w EXCEPT !.seed = s, !.rng = CreateRng(s)]

\* World.__init__ followed by the subclass creating its event generator
NewWorld(seed) == [seed |-> seed, rng |-> CreateRng(seed), cooldowns |-> EmptyDict]

InitialState(wc, hp) ==
    IF wc.init_list
    THEN [state |-> WorldState(0, [value |-> 50], wc.initially # None, wc.initially,
                               [events_occurred |-> Len(hp) + 1]),
          heap |-> Append(hp, <<>>)]
    ELSE [state |-> WorldState(0, [value |-> 50], wc.initially # None, wc.initially,
                               EmptyDict),
          heap |-> hp]

WorldStep(state, action) ==
    LET value == state.variables["value"]
        value2 == IF action = "increase" THEN value + 10
                  ELSE IF action = "decrease" THEN value - 10
                  ELSE value
    IN Evolve(state, [timestep |-> state.timestep + 1, value |-> value2])

GetAvailableActions(wc, state) ==
    IF state.variables["value"] = wc.stuck_at THEN <<>>
    ELSE <<"increase", "decrease", "hold">>

\* World.apply_events as overridden by a world with an event generator
ApplyEvents(wc, w, state, hp) ==
    LET sampled == SampleEvents(wc.events, state, w.rng, w.cooldowns)
        applied == ApplyAll(sampled.occurred, 1, state, hp)
    IN [state |-> applied.state, heap |-> applied.heap,
        world |-> [w EXCEPT !.rng = sampled.rng, !.cooldowns = sampled.cooldowns],
        occurred |-> sampled.occurred]

CheckTerminalPast(wc, state) ==
    LET value == state.variables["value"]
    IN IF value > wc.high
       THEN Evolve(state, [is_terminal |-> TRUE, terminal_reason |-> wc.high_reason])
       ELSE IF value < wc.low
            THEN Evolve(state, [is_terminal |-> TRUE, terminal_reason |-> "failure"])
            ELSE state

CheckTerminal(wc, state) ==
    LET value == state.variables["value"]
    IN IF value >= wc.high
       THEN Evolve(state, [is_terminal |-> TRUE, terminal_reason |-> wc.high_reason])
       ELSE IF value <= wc.low
            THEN Evolve(state, [is_terminal |-> TRUE, terminal_reason |-> "failure"])
            ELSE state

\* World.get_outcome_score (default), in tenths
GetOutcomeScore(state) ==
    IF is_success(state) THEN 10 ELSE IF is_failed(state) THEN 0 ELSE 5

\* ---------------------------------------------------------------- Policy
\* Policy.__init__ / RandomPolicy.__init__(seed)
NewPolicy(kind, seed) == [kind |-> kind, rng |-> CreateRng(seed), decision_count |-> 0]

\* DecisionContext.get_action_by_name
GetActionByName(available_actions, name) ==
    IF \E i \in 1..Len(available_actions) : available_actions[i] = name
    THEN name ELSE None

\* policy.decide(context): AlwaysIncreasePolicy / AlwaysDecreasePolicy of the
\* tests, and RandomPolicy, which records the decision and draws from its own
\* generator.
PolicyDecide(p, available_actions) ==
    IF p.kind = "random"
    THEN [action |-> available_actions[RngIntegers(p.rng, Len(available_actions)) + 1],
          policy |-> [p EXCEPT !.rng = RngAdvance(p.rng),
                               !.decision_count = p.decision_count + 1]]
    ELSE [action |-> GetActionByName(available_actions, p.kind), policy |-> p]

\* ------------------------------------------------------------- Simulator
VARIABLES
    wcfg,     \* the world factory's configuration (see World above)
    scfg,     \* Simulator(max_steps, record_full_trajectory)
    world,    \* per task: the World instance (seed, rng, generator cooldowns)
    policy,   \* the one Policy object handed to every run
    pcfg,     \* how the policy was constructed (kind, seed)
    sim,      \* per task: the locals of Simulator.run and its position
    fault,    \* per task: where (if anywhere) its world or policy raises
    heap,     \* the list objects
    runs,     \* Spec: the SimulationResults of the runs made so far
    setup,    \* Spec: per run, whether world / policy were built anew for it
    ex,       \* SpecSwarm: the SwarmExecutor calls
    lab       \* the operation applied to values built by hand, with its inputs and result

vars == <<wcfg, scfg, world, policy, pcfg, sim, fault, heap, runs, setup, ex, lab>>

NoLab == [op |-> "none"]

PyNone == [none |-> TRUE]
NoState == WorldState(0 - 1, EmptyDict, FALSE, None, EmptyDict)

\* Simulator._state_to_dict: dict(state.variables), dict(state.metadata) are
\* shallow copies, so the snapshot holds the same list reference.
StateToDict(state) ==
    [timestep |-> state.timestep,
     variables |-> [k \in DOMAIN state.variables |-> state.variables[k]],
     is_terminal |-> state.is_terminal,
     terminal_reason |-> state.terminal_reason,
     metadata |-> [k \in DOMAIN state.metadata |-> state.metadata[k]]]

\* Simulator._action_to_dict for an Action (Action.to_dict)
ActionToDict(action) == [name |-> action, action_type |-> "PROCEED"]

Snapshot(state) == IF scfg.record_full_trajectory THEN StateToDict(state) ELSE PyNone

\* Simulator._get_new_events, reading the lists as they are when it is called
GetNewEvents(state_before, state_after, hp) ==
    LET get(st) == IF "events_occurred" \in DOMAIN st.metadata
                   THEN hp[st.metadata["events_occurred"]] ELSE <<>>
        before_events == get(state_before)
        after_events == get(state_after)
    IN SubSeq(after_events, Len(before_events) + 1, Len(after_events))

DetermineOutcomeUnmarked(state) ==
    IF state.is_terminal
    THEN [outcome |-> state.terminal_reason, state |-> state]
    ELSE [outcome |-> "timeout", state |-> state]

\* Simulator.run, lines 191-200
DetermineOutcome(state) ==
    IF state.is_terminal
    THEN [outcome |-> state.terminal_reason, state |-> state]
    ELSE [outcome |-> "timeout",
          state |-> Evolve(state, [is_terminal |-> TRUE, terminal_reason |-> "timeout"])]

NoResult == [total_steps |-> 0 - 1]

IdleSim ==
    [pc |-> "idle", seed |-> NoSeed, step |-> 0, state |-> NoState,
     state_before_events |-> NoState, available_actions |-> <<>>, action |-> None,
     step_record |-> EmptyDict, trajectory |-> <<>>, all_events |-> <<>>,
     initial_state |-> NoState, result |-> NoResult,
     \* history, not program state: the collaborator calls of the iteration in
     \* progress and of every recorded step, the records fired per step, the
     \* state the loop ended with, and the get_outcome_score calls
     calls |-> <<>>, call_log |-> <<>>, fired |-> <<>>, loop_exit |-> NoState,
     score_calls |-> 0]

Call(name, arg, ret) == [call |-> name, arg |-> arg, ret |-> ret]

\* The part of the program state one task's Simulator.run works on: its own
\* locals and world, the shared policy and the list objects.
Machine(t) == [s |-> sim[t], w |-> world[t], p |-> policy, h |-> heap]

Install(t, m) ==
    /\ sim' = [sim EXCEPT ![t] = m.s]
    /\ world' = [world EXCEPT ![t] = m.w]
    /\ policy' = m.p
    /\ heap' = m.h

\* lines 133-139
DoRun(m, seed) ==
    LET init == InitialState(wcfg, m.h)
    IN [m EXCEPT !.w = WorldReset(m.w, seed),
                 !.h = init.heap,
                 !.s = [IdleSim EXCEPT !.pc = "loop", !.seed = seed,
                                       !.state = init.state,
                                       !.initial_state = StateToDict(init.state)]]

\* the loop without its test of state.is_terminal
DoGetActionsPastTerminal(m) ==
    LET s == m.s
        available_actions == GetAvailableActions(wcfg, s.state)
    IN [m EXCEPT !.s =
          IF s.step >= scfg.max_steps
          THEN [s EXCEPT !.pc = "finish", !.loop_exit = s.state, !.calls = <<>>]
          ELSE IF available_actions = <<>>
               THEN [s EXCEPT !.pc = "finish", !.loop_exit = s.state,
                       !.calls = <<Call("get_available_actions", s.state, <<>>)>>]
               ELSE [s EXCEPT !.pc = "decide",
                       !.available_actions = available_actions,
                       !.calls = <<Call("get_available_actions", s.state,
                                        available_actions)>>]]

\* lines 142-151: the loop header, the terminal test and get_available_actions
DoGetActions(m) ==
    LET s == m.s
        available_actions == GetAvailableActions(wcfg, s.state)
    IN [m EXCEPT !.s =
          IF s.step >= scfg.max_steps \/ s.state.is_terminal
          THEN [s EXCEPT !.pc = "finish", !.loop_exit = s.state, !.calls = <<>>]
          ELSE IF available_actions = <<>>
               THEN [s EXCEPT !.pc = "finish", !.loop_exit = s.state,
                       !.calls = <<Call("get_available_actions", s.state, <<>>)>>]
               ELSE [s EXCEPT !.pc = "decide",
                       !.available_actions = available_actions,
                       !.calls = <<Call("get_available_actions", s.state,
                                        available_actions)>>]]

\* lines 153-169; flt = "decide" when policy.decide raises
DoDecide(m, flt) ==
    LET s == m.s
        context == [state |-> s.state, available_actions |-> s.available_actions,
                    timestep |-> s.state.timestep]
        d == PolicyDecide(m.p, s.available_actions)
    IN IF flt = "decide"
       THEN [m EXCEPT !.s = [s EXCEPT !.pc = "raised"]]
       ELSE [m EXCEPT !.p = d.policy,
                      !.s = [s EXCEPT !.pc = "step", !.action = d.action,
                               !.step_record =
                                  [timestep |-> s.state.timestep,
                                   state |-> Snapshot(s.state),
                                   action |-> ActionToDict(d.action),
                                   available_actions |->
                                      [i \in 1..Len(s.available_actions) |->
                                          ActionToDict(s.available_actions[i])]],
                               !.calls = Append(s.calls,
                                                Call("decide", context, d.action))]]

\* line 172; flt = "step" when world.step raises
DoStep(m, flt) ==
    LET s == m.s
        next == WorldStep(s.state, s.action)
    IN [m EXCEPT !.s =
          IF flt = "step"
          THEN [s EXCEPT !.pc = "raised"]
          ELSE [s EXCEPT !.pc = "events", !.state = next,
                  !.calls = Append(s.calls, Call("step", s.state, next))]]

\* lines 175-181
DoApplyEvents(m) ==
    LET s == m.s
        state_before_events == s.state
        r == ApplyEvents(wcfg, m.w, s.state, m.h)
        events_this_step == GetNewEvents(state_before_events, r.state, r.heap)
    IN [m EXCEPT !.w = r.world,
                 !.h = r.heap,
                 !.s = [s EXCEPT !.pc = "terminal", !.state = r.state,
                          !.state_before_events = state_before_events,
                          !.step_record = DictUpdate(s.step_record,
                                                     [events |-> events_this_step]),
                          !.all_events = s.all_events \o events_this_step,
                          !.calls = Append(s.calls,
                                           Call("apply_events", s.state, r.state)),
                          !.fired = Append(s.fired,
                                       [i \in 1..Len(r.occurred) |->
                                           OccurrenceRecord(r.occurred[i], s.state)])]]

\* line 184: the state handed to world.check_terminal
TerminalCheckInputStale(s) == s.state_before_events
TerminalCheckInput(s) == s.state

\* lines 184-189
DoCheckTerminal(m) ==
    LET s == m.s
        checked == CheckTerminal(wcfg, TerminalCheckInput(s))
        step_record == DictUpdate(s.step_record, [state_after |-> Snapshot(checked)])
        calls == Append(s.calls, Call("check_terminal", TerminalCheckInput(s),
                                      checked))
    IN [m EXCEPT !.s =
          [s EXCEPT !.pc = "loop", !.state = checked, !.step = s.step + 1,
             !.step_record = step_record,
             !.trajectory = Append(s.trajectory, step_record),
             !.calls = calls,
             !.call_log = Append(s.call_log, calls)]]

SimResultStepLimit(s) ==
    LET d == DetermineOutcome(s.state)
    IN [trajectory |-> s.trajectory,
        initial_state |-> s.initial_state,
        final_state |-> StateToDict(d.state),
        total_steps |-> Len(s.trajectory),
        outcome |-> IF Len(s.trajectory) >= scfg.max_steps THEN "timeout"
                    ELSE d.outcome,
        outcome_score |-> GetOutcomeScore(d.state),
        events_occurred |-> s.all_events,
        seed |-> s.seed,
        metadata |-> [max_steps |-> scfg.max_steps]]

\* lines 202-217
SimResult(s) ==
    LET d == DetermineOutcome(s.state)
    IN [trajectory |-> s.trajectory,
        initial_state |-> s.initial_state,
        final_state |-> StateToDict(d.state),
        total_steps |-> Len(s.trajectory),
        outcome |-> d.outcome,
        outcome_score |-> GetOutcomeScore(d.state),
        events_occurred |-> s.all_events,
        seed |-> s.seed,
        metadata |-> [max_steps |-> scfg.max_steps]]

\* lines 191-217
DoFinish(m) ==
    LET s == m.s
    IN [m EXCEPT !.s =
          [s EXCEPT !.pc = "done", !.state = DetermineOutcome(s.state).state,
             !.result = SimResult(s), !.score_calls = s.score_calls + 1]]

\* One action per stage of Simulator.run for task t.
SimRun(t, seed) ==
    /\ sim[t].pc = "idle"
    /\ Install(t, DoRun(Machine(t), seed))
    /\ UNCHANGED <<wcfg, scfg, pcfg, fault, runs, setup, ex, lab>>

SimGetActions(t) ==
    /\ sim[t].pc = "loop"
    /\ Install(t, DoGetActions(Machine(t)))
    /\ UNCHANGED <<wcfg, scfg, pcfg, fault, runs, setup, ex, lab>>

SimDecide(t) ==
    /\ sim[t].pc = "decide"
    /\ Install(t, DoDecide(Machine(t), fault[t]))
    /\ UNCHANGED <<wcfg, scfg, pcfg, fault, runs, setup, ex, lab>>

SimStep(t) ==
    /\ sim[t].pc = "step"
    /\ Install(t, DoStep(Machine(t), fault[t]))
    /\ UNCHANGED <<wcfg, scfg, pcfg, fault, runs, setup, ex, lab>>

SimApplyEvents(t) ==
    /\ sim[t].pc = "events"
    /\ Install(t, DoApplyEvents(Machine(t)))
    /\ UNCHANGED <<wcfg, scfg, pcfg, fault, runs, setup, ex, lab>>

SimCheckTerminal(t) ==
    /\ sim[t].pc = "terminal"
    /\ Install(t, DoCheckTerminal(Machine(t)))
    /\ UNCHANGED <<wcfg, scfg, pcfg, fault, runs, setup, ex, lab>>

SimFinish(t) ==
    /\ sim[t].pc = "finish"
    /\ Install(t, DoFinish(Machine(t)))
    /\ UNCHANGED <<wcfg, scfg, pcfg, fault, runs, setup, ex, lab>>

SimAction(t) ==
    \/ SimGetActions(t)
    \/ SimDecide(t)
    \/ SimStep(t)
    \/ SimApplyEvents(t)
    \/ SimCheckTerminal(t)
    \/ SimFinish(t)

\* ------------------------------------------------- Spec: one Simulator
Seeds == 0..MaxSeed

Quit == Event("team_member_quits", 10, 7, TRUE, 2)
Creep == Event("scope_creep", 5, 4, FALSE, 0)
EventLists == {<<>>, <<Quit>>, <<Creep, Quit>>}

\* (high, low, high_reason, stuck_at): SimpleWorld itself, the same with closer
\* thresholds, two worlds whose check_terminal marks a state terminal without
\* one of the three reasons, one that runs out of actions, and one whose
\* initial state is terminal already (the fifth entry is its terminal_reason).
WorldKinds ==
    {<<100, 0, "success", NoValue>>, <<60, 40, "success", NoValue>>,
     <<70, 30, None, NoValue>>, <<70, 30, "stuck", NoValue>>,
     <<100, 0, "success", 60>>, <<100, 0, "success", NoValue, "failure">>}

WorldConfig(events, init_list, kind) ==
    [events |-> events, init_list |-> init_list, high |-> kind[1], low |-> kind[2],
     high_reason |-> kind[3], stuck_at |-> kind[4],
     initially |-> IF Len(kind) > 4 THEN kind[5] ELSE None]

WorldConfigs ==
    {WorldConfig(e, l, k) : e \in EventLists, l \in BOOLEAN, k \in WorldKinds}

PolicyConfigs ==
    {[kind |-> "increase", seed |-> 0], [kind |-> "decrease", seed |-> 0],
     [kind |-> "random", seed |-> 0]}

NoExecutor == [phase |-> "none"]

Init ==
    /\ wcfg \in WorldConfigs
    /\ scfg \in [max_steps : 1..MaxSteps, record_full_trajectory : BOOLEAN]
    /\ pcfg \in PolicyConfigs
    /\ policy = NewPolicy(pcfg.kind, pcfg.seed)
    /\ world = [t \in {0} |-> NewWorld(0)]
    /\ sim = [t \in {0} |-> IdleSim]
    /\ fault = [t \in {0} |-> "none"]
    /\ heap = <<>>
    /\ runs = <<>>
    /\ setup = <<[fresh_world |-> TRUE, fresh_policy |-> TRUE]>>
    /\ ex = NoExecutor
    /\ lab = NoLab

\* The lists a snapshot refers to, by content (what == compares in Python).
DeepState(snap, hp) ==
    IF snap = PyNone THEN snap
    ELSE [snap EXCEPT !.metadata =
            [k \in DOMAIN snap.metadata |->
                IF k = "events_occurred" THEN hp[snap.metadata[k]]
                ELSE snap.metadata[k]]]

DeepResult(r, hp) ==
    [r EXCEPT !.trajectory =
                 [i \in 1..Len(r.trajectory) |->
                     [r.trajectory[i] EXCEPT
                        !.state = DeepState(r.trajectory[i].state, hp),
                        !.state_after = DeepState(r.trajectory[i].state_after, hp)]],
              !.initial_state = DeepState(r.initial_state, hp),
              !.final_state = DeepState(r.final_state, hp)]

\* The caller: simulator.run(policy, seed) once more with the same seed, on the
\* same Simulator and policy or on ones built anew in the same way.
Run ==
    \E seed \in Seeds :
        /\ Len(setup) = Len(runs) + 1
        /\ runs # <<>> => seed = runs[1].seed
        /\ SimRun(0, seed)

Return ==
    /\ sim[0].pc = "done"
    /\ runs' = Append(runs, DeepResult(sim[0].result, heap))
    /\ sim' = [sim EXCEPT ![0] = IdleSim]
    /\ UNCHANGED <<wcfg, scfg, world, policy, pcfg, fault, heap, setup, ex, lab>>

Prepare ==
    \E fresh_world \in BOOLEAN, fresh_policy \in BOOLEAN :
        /\ sim[0].pc = "idle"
        /\ Len(setup) = Len(runs)
        /\ Len(runs) < MaxRuns
        /\ world' = IF fresh_world THEN [world EXCEPT ![0] = NewWorld(0)] ELSE world
        /\ policy' = IF fresh_policy THEN NewPolicy(pcfg.kind, pcfg.seed) ELSE policy
        /\ setup' = Append(setup, [fresh_world |-> fresh_world,
                                   fresh_policy |-> fresh_policy])
        /\ UNCHANGED <<wcfg, scfg, pcfg, sim, fault, heap, runs, ex, lab>>

Next ==
    \/ Run
    \/ SimAction(0)
    \/ Return
    \/ Prepare

Spec == Init /\ [][Next]_vars

\* --------------------------------------------------------- SwarmExecutor
NoTimeout == 0 - 1

\* seeds = [base_seed + i for i in range(n_worlds)]
SeedOf(i) == ex.config.base_seed + i
Tasks == 0..(ex.config.n_worlds - 1)

\* The exception a world factory, policy.decide or world.step raises.
ExceptionAt(flt) ==
    [message |-> flt \o " failed",
     type |-> CASE flt = "factory" -> "ValueError"
                [] flt = "decide" -> "RuntimeError"
                [] OTHER -> "KeyError"]

\* Simulator.run from where it stands up to its next policy.decide call, or
\* to its end when there is none.
LocalSteps == {"loop", "step", "events", "terminal", "finish"}

\* the next step of Simulator.run that involves no other thread
Advance(m, flt) ==
    CASE m.s.pc = "loop" -> DoGetActions(m)
      [] m.s.pc = "step" -> DoStep(m, flt)
      [] m.s.pc = "events" -> DoApplyEvents(m)
      [] m.s.pc = "terminal" -> DoCheckTerminal(m)
      [] m.s.pc = "finish" -> DoFinish(m)

RECURSIVE RunLocal(_, _)
RunLocal(m, flt) ==
    IF m.s.pc \in LocalSteps
    THEN CHOOSE r \in {RunLocal(n, flt) : n \in {Advance(m, flt)}} : TRUE
    ELSE m

\* Simulator.run to its end
RECURSIVE RunToEnd(_, _)
RunToEnd(m, flt) ==
    CHOOSE r \in {IF n.s.pc = "decide"
                  THEN CHOOSE q \in {RunToEnd(d, flt) : d \in {DoDecide(n, flt)}} : TRUE
                  ELSE n : n \in {RunLocal(m, flt)}} : TRUE

\* _run_single_world up to the first decision: world_factory(seed),
\* Simulator(world), simulator.run(policy, seed)
StartSingleWorld(m, seed, flt) ==
    IF flt = "factory"
    THEN [m EXCEPT !.s = [IdleSim EXCEPT !.pc = "raised", !.seed = seed]]
    ELSE CHOOSE r \in {RunLocal(n, flt) :
                          n \in {DoRun([m EXCEPT !.w = NewWorld(seed)], seed)}} : TRUE

RunSingleWorld(m, seed, flt) ==
    CHOOSE r \in {RunToEnd(n, flt) : n \in {StartSingleWorld(m, seed, flt)}} : TRUE

\* What a finished _run_single_world hands back: the SimulationResult, or the
\* exception that ended it.
Finished(s) == s.pc \in {"done", "raised"}

Returned(s, hp, flt) ==
    IF s.pc = "done"
    THEN [raised |-> FALSE, result |-> DeepResult(s.result, hp)]
    ELSE [raised |-> TRUE, exception |-> ExceptionAt(flt)]

\* future.result(timeout): the outcome of a finished future at once; for one
\* still running, TimeoutError once the timeout has passed.
FutureResult(s, hp, flt, timeout) ==
    IF Finished(s) THEN Returned(s, hp, flt)
    ELSE [raised |-> TRUE,
          exception |-> [message |-> "", type |-> "TimeoutError"],
          waited |-> timeout]

RecordOutcomeLosingErrors(acc, seed, r) ==
    IF r.raised THEN acc
    ELSE [acc EXCEPT !.results = Append(@, r.result)]

\* try: results.append(result) / except Exception as e: errors.append({...})
RecordOutcome(acc, seed, r) ==
    IF r.raised
    THEN [acc EXCEPT !.errors = Append(@, [seed |-> seed,
                                           error |-> r.exception.message,
                                           error_type |-> r.exception.type])]
    ELSE [acc EXCEPT !.results = Append(@, r.result)]

NoOutcomes == [results |-> <<>>, errors |-> <<>>]

SwarmResult(acc, config) ==
    [results |-> acc.results,
     config |-> config,
     successful_runs |-> Len(acc.results),
     failed_runs |-> Len(acc.errors),
     errors |-> acc.errors]

\* One iteration of run_sequential's loop, for world i.
SequentialIteration(i, m, acc, config, flts) ==
    LET seed == config.base_seed + i
        n == RunSingleWorld(m, seed, flts[i])
    IN [m |-> n, acc |-> RecordOutcome(acc, seed, Returned(n.s, n.h, flts[i]))]

RECURSIVE SequentialFrom(_, _, _, _, _)
SequentialFrom(i, m, acc, config, flts) ==
    IF i >= config.n_worlds THEN SwarmResult(acc, config)
    ELSE LET it == SequentialIteration(i, m, acc, config, flts)
         IN SequentialFrom(i + 1, it.m, it.acc, config, flts)

\* executor.run_sequential(policy) as a whole
RunSequential(p, config, flts) ==
    SequentialFrom(0, [s |-> IdleSim, w |-> NewWorld(0), p |-> p, h |-> <<>>],
                   NoOutcomes, config, flts)

\* ------------------------------------------------- SpecSwarm: one executor
FaultKinds == {"none", "factory", "decide", "step"}

SwarmConfigs ==
    [n_worlds : 1..MaxWorlds, max_workers : {1, MaxWorkers}, base_seed : Seeds,
     executor_type : {"thread"}, timeout_seconds : {NoTimeout, 1}]

SwarmWorldConfigs ==
    {WorldConfig(e, TRUE, <<70, 30, "success", NoValue>>) : e \in {<<>>, <<Creep>>}}

QueuedSim == [IdleSim EXCEPT !.pc = "queued"]

InitSwarm ==
    /\ wcfg \in SwarmWorldConfigs
    /\ scfg \in [max_steps : {MaxSteps - 1}, record_full_trajectory : {TRUE}]
    /\ pcfg \in PolicyConfigs
    /\ policy = NewPolicy(pcfg.kind, pcfg.seed)
    /\ \E config \in SwarmConfigs :
          /\ ex = [phase |-> "idle", mode |-> "none", config |-> config, next |-> 0,
                   collected |-> {}, acc |-> NoOutcomes]
          /\ world = [t \in 0..(config.n_worlds - 1) |-> NewWorld(0)]
          /\ sim = [t \in 0..(config.n_worlds - 1) |-> IdleSim]
          /\ fault \in [0..(config.n_worlds - 1) -> FaultKinds]
    /\ heap = <<>>
    /\ runs = <<>>
    /\ setup = <<>>
    /\ lab = NoLab

\* executor.run_sequential(policy) is called
CallRunSequential ==
    /\ ex.phase = "idle"
    /\ ex' = [ex EXCEPT !.phase = "running", !.mode = "sequential"]
    /\ UNCHANGED <<wcfg, scfg, world, policy, pcfg, sim, fault, heap, runs, setup, lab>>

\* lines 256-270: one iteration of the loop
SequentialWorld ==
    /\ ex.phase = "running"
    /\ ex.mode = "sequential"
    /\ ex.next < ex.config.n_worlds
    /\ LET i == ex.next
           it == SequentialIteration(i, Machine(i), ex.acc, ex.config, fault)
       IN /\ Install(i, it.m)
          /\ ex' = [ex EXCEPT !.next = i + 1, !.acc = it.acc,
                              !.collected = @ \cup {i}]
    /\ UNCHANGED <<wcfg, scfg, pcfg, fault, runs, setup, lab>>

\* executor.run(policy) is called: lines 186-205, every seed is submitted
CallRun ==
    /\ ex.phase = "idle"
    /\ ex' = [ex EXCEPT !.phase = "running", !.mode = "parallel"]
    /\ sim' = [t \in DOMAIN sim |-> QueuedSim]
    /\ UNCHANGED <<wcfg, scfg, world, policy, pcfg, fault, heap, runs, setup, lab>>

Running == {t \in DOMAIN sim : sim[t].pc \notin {"idle", "queued", "done", "raised"}}

\* A free worker thread takes the oldest queued task and runs it up to its
\* first decision.
TaskStart(t) ==
    /\ ex.phase = "running"
    /\ ex.mode = "parallel"
    /\ sim[t].pc = "queued"
    /\ \A u \in DOMAIN sim : u < t => sim[u].pc # "queued"
    /\ Cardinality(Running) < ex.config.max_workers
    /\ Install(t, StartSingleWorld(Machine(t), SeedOf(t), fault[t]))
    /\ UNCHANGED <<wcfg, scfg, pcfg, fault, runs, setup, ex, lab>>

\* A worker thread makes its task's next policy.decide call and runs on to
\* the one after it.
WorkerDecide(t) ==
    /\ ex.phase = "running"
    /\ ex.mode = "parallel"
    /\ sim[t].pc = "decide"
    /\ Install(t, RunLocal(DoDecide(Machine(t), fault[t]), fault[t]))
    /\ UNCHANGED <<wcfg, scfg, pcfg, fault, runs, setup, ex, lab>>

\* lines 207-220: as_completed yields a finished future
Collect(t) ==
    /\ ex.phase = "running"
    /\ ex.mode = "parallel"
    /\ t \notin ex.collected
    /\ Finished(sim[t])
    /\ ex' = [ex EXCEPT !.collected = @ \cup {t},
                        !.acc = RecordOutcome(@, SeedOf(t),
                                   FutureResult(sim[t], heap, fault[t],
                                                ex.config.timeout_seconds))]
    /\ UNCHANGED <<wcfg, scfg, world, policy, pcfg, sim, fault, heap, runs, setup, lab>>

\* return SwarmResult(...)
SwarmReturn ==
    /\ ex.phase = "running"
    /\ ex.collected = DOMAIN sim
    /\ ex.mode = "sequential" => ex.next = ex.config.n_worlds
    /\ runs' = Append(runs, SwarmResult(ex.acc, ex.config))
    /\ ex' = [ex EXCEPT !.phase = "returned"]
    /\ UNCHANGED <<wcfg, scfg, world, policy, pcfg, sim, fault, heap, setup, lab>>

NextSwarm ==
    \/ CallRunSequential
    \/ SequentialWorld
    \/ CallRun
    \/ \E t \in DOMAIN sim : TaskStart(t)
    \/ \E t \in DOMAIN sim : WorkerDecide(t)
    \/ \E t \in DOMAIN sim : Collect(t)
    \/ SwarmReturn

SpecSwarm == InitSwarm /\ [][NextSwarm]_vars

\* ------------------------------------------------ operations on their own
pipeline == <<wcfg, scfg, world, policy, pcfg, sim, fault, heap, runs, setup, ex>>

\* No simulation is running: the specifications below apply one operation to
\* values built by hand.
NoPipeline ==
    /\ wcfg = WorldConfig(<<>>, FALSE, <<100, 0, "success", NoValue>>)
    /\ scfg = [max_steps |-> 1, record_full_trajectory |-> TRUE]
    /\ pcfg = [kind |-> "increase", seed |-> 0]
    /\ policy = NewPolicy("increase", 0)
    /\ world = [t \in {0} |-> NewWorld(0)]
    /\ sim = [t \in {0} |-> IdleSim]
    /\ fault = [t \in {0} |-> "none"]
    /\ heap = <<>>
    /\ runs = <<>>
    /\ setup = <<>>
    /\ ex = NoExecutor

\* ------------------------------------ SpecRamp: SimpleWorld, max_steps = 20
RampMaxSteps == 20

RampWorld == WorldConfig(<<>>, FALSE, <<100, 0, "success", NoValue>>)

InitRamp ==
    /\ wcfg = RampWorld
    /\ scfg \in [max_steps : {RampMaxSteps}, record_full_trajectory : BOOLEAN]
    /\ pcfg \in {[kind |-> "increase", seed |-> 0], [kind |-> "decrease", seed |-> 0]}
    /\ policy = NewPolicy(pcfg.kind, pcfg.seed)
    /\ world \in {[t \in {0} |-> NewWorld(seed)] : seed \in Seeds}
    /\ sim = [t \in {0} |-> IdleSim]
    /\ fault = [t \in {0} |-> "none"]
    /\ heap = <<>>
    /\ runs = <<>>
    /\ setup = <<[fresh_world |-> TRUE, fresh_policy |-> TRUE]>>
    /\ ex = NoExecutor
    /\ lab = NoLab

\* result = simulator.run(policy, seed=...)
NextRamp ==
    \/ Run
    \/ SimAction(0)
    \/ Return

SpecRamp == InitRamp /\ [][NextRamp]_vars /\ WF_vars(NextRamp)

\* ------------------------------- SpecConfig: construction-time validation
\* Event.__post_init__: probability and severity in tenths
EventPostInit(args) ==
    IF ~(0 <= args.probability /\ args.probability <= 10) THEN "ValueError"
    ELSE IF ~(0 <= args.severity /\ args.severity <= 10) THEN "ValueError"
    ELSE "ok"

\* SwarmConfig.__post_init__
SwarmConfigPostInit(config) ==
    IF config.n_worlds < 1 THEN "ValueError"
    ELSE IF config.executor_type \notin {"thread", "process"} THEN "ValueError"
    ELSE "ok"

\* ThreadPoolExecutor(max_workers) / ProcessPoolExecutor(max_workers): None
\* gives the default size, a size of 0 or less raises ValueError.
PoolConstruct(max_workers) ==
    IF max_workers # NoValue /\ max_workers <= 0 THEN "ValueError" ELSE "ok"

EventArguments == [probability : {0 - 1, 0, 5, 10, 11}, severity : {0 - 1, 0, 5, 10, 11}]

SwarmConfigArguments ==
    [n_worlds : 0..MaxWorlds, max_workers : {NoValue} \cup 0..MaxWorkers,
     executor_type : {"thread", "process", "invalid"},
     timeout_seconds : {NoTimeout, 0 - 2, 1}]

InitConfig ==
    /\ NoPipeline
    /\ \/ \E args \in EventArguments :
             lab = [op |-> "Event", pc |-> "built", args |-> args]
       \/ \E args \in SwarmConfigArguments :
             lab = [op |-> "SwarmConfig", pc |-> "built", args |-> args]

\* Event(name, description, probability, severity)
ConstructEvent ==
    /\ lab.op = "Event"
    /\ lab.pc = "built"
    /\ lab' = [lab EXCEPT !.pc = IF EventPostInit(lab.args) = "ok" THEN "constructed"
                                 ELSE "rejected"]
    /\ UNCHANGED pipeline

\* SwarmConfig(n_worlds, max_workers, executor_type, timeout_seconds)
ConstructSwarmConfig ==
    /\ lab.op = "SwarmConfig"
    /\ lab.pc = "built"
    /\ lab' = [lab EXCEPT !.pc = IF SwarmConfigPostInit(lab.args) = "ok"
                                 THEN "constructed" ELSE "rejected"]
    /\ UNCHANGED pipeline

\* SwarmExecutor(world_factory, config).run(policy), up to the creation of the
\* worker pool: a ValueError raised there leaves run.
ExecutorRun ==
    /\ lab.op = "SwarmConfig"
    /\ lab.pc = "constructed"
    /\ lab' = [lab EXCEPT !.pc = IF PoolConstruct(lab.args.max_workers) = "ok"
                                 THEN "submitted" ELSE "run raised"]
    /\ UNCHANGED pipeline

NextConfig ==
    \/ ConstructEvent
    \/ ConstructSwarmConfig
    \/ ExecutorRun

SpecConfig == InitConfig /\ [][NextConfig]_vars

\* ------------------------------------------ SpecEvolve: WorldState.evolve
\* Dicts as objects: objs[ref] is the content of the dict object ref.
DictShare(objs, ref) == [objs |-> objs, ref |-> ref]
\* dict(d): a new dict object holding d's items
DictCopy(objs, ref) == [objs |-> Append(objs, objs[ref]), ref |-> Len(objs) + 1]

\* WorldState.evolve on a state whose variables and metadata are dict objects.
\* dict(self.metadata) is evaluated whether or not updates has "metadata".
EvolveObj(objs, s, updates) ==
    LET new_variables == DictCopy(objs, s.variables)
        special_fields == [k \in (DOMAIN updates) \cap SpecialFields |-> updates[k]]
        rest == [k \in (DOMAIN updates) \ SpecialFields |-> updates[k]]
        updated == [new_variables.objs EXCEPT
                       ![new_variables.ref] = DictUpdate(@, rest)]
        metadata == DictCopy(updated, s.metadata)
        get(k, default) == IF k \in DOMAIN special_fields THEN special_fields[k]
                           ELSE default
    IN [objs |-> metadata.objs,
        state |-> WorldState(get("timestep", s.timestep),
                             new_variables.ref,
                             get("is_terminal", s.is_terminal),
                             get("terminal_reason", s.terminal_reason),
                             get("metadata", metadata.ref))]

\* The state as == sees it: the dicts by content.
DeepObj(objs, s) ==
    [s EXCEPT !.variables = objs[s.variables], !.metadata = objs[s.metadata]]

\* Object 1 is s.variables, object 2 s.metadata, object 3 the dict a caller
\* passes as metadata=...
EvolveVariables == {EmptyDict, [value |-> 10], [value |-> 10, timestep |-> 7]}
EvolveMetadata == {EmptyDict, [note |-> 1]}
UpdateValue ==
    [value |-> 20, other |-> 1, timestep |-> 5, is_terminal |-> TRUE,
     terminal_reason |-> "failure", metadata |-> 3]

InitEvolve ==
    /\ NoPipeline
    /\ \E v \in EvolveVariables, md \in EvolveMetadata, t \in {0, 1},
          term \in {<<FALSE, None>>, <<TRUE, "success">>},
          keys \in SUBSET (DOMAIN UpdateValue) :
          LET objs == <<v, md, [given |-> 2]>>
              s == WorldState(t, 1, term[1], term[2], 2)
          IN lab = [op |-> "evolve", pc |-> "built", objs |-> objs, s |-> s,
                    before |-> DeepObj(objs, s),
                    updates |-> [k \in keys |-> UpdateValue[k]],
                    out |-> s]

\* new_state = s.evolve(**updates)
EvolveCall ==
    /\ lab.op = "evolve"
    /\ lab.pc = "built"
    /\ LET r == EvolveObj(lab.objs, lab.s, lab.updates)
       IN lab' = [lab EXCEPT !.pc = "returned", !.objs = r.objs, !.out = r.state]
    /\ UNCHANGED pipeline

NextEvolve == EvolveCall

SpecEvolve == InitEvolve /\ [][NextEvolve]_vars

\* ------------------------------------------------------------- floats
\* Python floats are binary floating-point numbers: every operation returns
\* the exact result rounded to the nearest representable value, ties to even.
\* Here a float is an integer count of 2^-FracBits with at most MantissaBits
\* significant bits (binary64 has 53).
FracBits == 10
MantissaBits == 6

RECURSIVE Pow2(_)
Pow2(n) == IF n = 0 THEN 1 ELSE 2 * Pow2(n - 1)

One == Pow2(FracBits)
Half == One \div 2

RECURSIVE BitLength(_)
BitLength(x) == IF x = 0 THEN 0 ELSE 1 + BitLength(x \div 2)

Abs(x) == IF x < 0 THEN 0 - x ELSE x

\* num / den (den > 0, num >= 0) to the nearest integer, ties to even
Nearest(num, den) ==
    LET q == num \div den
        r == num % den
    IN IF 2 * r > den \/ (2 * r = den /\ q % 2 = 1) THEN q + 1 ELSE q

\* x cut to the next lower value with MantissaBits significant bits
RoundDown(x) ==
    LET drop == Pow2(Max(0, BitLength(Abs(x)) - MantissaBits))
        m == (Abs(x) \div drop) * drop
    IN IF x < 0 THEN 0 - m ELSE m

\* x rounded to MantissaBits significant bits
Round(x) ==
    LET drop == Pow2(Max(0, BitLength(Abs(x)) - MantissaBits))
        m == Nearest(Abs(x), drop) * drop
    IN IF x < 0 THEN 0 - m ELSE m

\* The float nearest to the rational num / den
Float(num, den) ==
    IF num < 0 THEN 0 - Round(Nearest((0 - num) * One, den))
    ELSE Round(Nearest(num * One, den))

FAdd(a, b) == Round(a + b)
FSub(a, b) == Round(a - b)
FMul(a, b) ==
    IF a * b < 0 THEN 0 - Round(Nearest(0 - a * b, One))
    ELSE Round(Nearest(a * b, One))
FDiv(a, b) ==
    IF (a < 0) # (b < 0) THEN 0 - Round(Nearest(Abs(a) * One, Abs(b)))
    ELSE Round(Nearest(Abs(a) * One, Abs(b)))

\* the largest r in lo..hi with r * r <= x (lo * lo <= x)
RECURSIVE SqrtBetween(_, _, _)
SqrtBetween(x, lo, hi) ==
    IF lo = hi THEN lo
    ELSE LET mid == (lo + hi + 1) \div 2
         IN IF mid * mid <= x THEN SqrtBetween(x, mid, hi)
            ELSE SqrtBetween(x, lo, mid - 1)

\* np.sqrt
FSqrt(a) ==
    LET x == a * One
        r == SqrtBetween(x, 0, Min(x, Pow2(15)))
    IN Round(IF x - r * r > r THEN r + 1 ELSE r)

RECURSIVE FSum(_)
FSum(xs) == IF xs = <<>> THEN 0 ELSE FAdd(FSum(SubSeq(xs, 1, Len(xs) - 1)), xs[Len(xs)])

\* np.mean, np.var, np.std of a non-empty list
FMean(xs) == FDiv(FSum(xs), Float(Len(xs), 1))
FVar(xs) ==
    LET mean == FMean(xs)
        dev(i) == FSub(xs[i], mean)
    IN FMean([i \in 1..Len(xs) |-> FMul(dev(i), dev(i))])
FStd(xs) == FSqrt(FVar(xs))

\* ----------------------------------------------------- metrics/survival.py
\* SimulationResult.is_failure
IsFailure(r) == r.outcome = "failure"

\* sorted(S)
RECURSIVE Sorted(_)
Sorted(S) ==
    IF S = {} THEN <<>>
    ELSE LET least == CHOOSE x \in S : \A y \in S : x <= y
         IN <<least>> \o Sorted(S \ {least})

MaxOf(S) == CHOOSE x \in S : \A y \in S : y <= x
MinOf(S) == CHOOSE x \in S : \A y \in S : x <= y

CountWhere(results, P(_)) == Cardinality({i \in 1..Len(results) : P(results[i])})

RECURSIVE KaplanMeierAllEnds(_, _, _)
KaplanMeierAllEnds(results, unique_times, k) ==
    IF k = 0 THEN One
    ELSE LET t == unique_times[k]
             at(r) == r.total_steps >= t
             ev(r) == r.total_steps = t
             n_at_risk == CountWhere(results, at)
             n_events == CountWhere(results, ev)
             current_survival == KaplanMeierAllEnds(results, unique_times, k - 1)
         IN IF n_at_risk > 0 /\ n_events > 0
            THEN FMul(current_survival,
                      FDiv(Float(n_at_risk - n_events, 1), Float(n_at_risk, 1)))
            ELSE current_survival

\* lines 134-149: current_survival after the first k unique times
RECURSIVE KaplanMeier(_, _, _)
KaplanMeier(results, unique_times, k) ==
    IF k = 0 THEN One
    ELSE LET t == unique_times[k]
             at(r) == r.total_steps >= t
             ev(r) == r.total_steps = t /\ IsFailure(r)
             n_at_risk == CountWhere(results, at)
             n_events == CountWhere(results, ev)
             current_survival == KaplanMeier(results, unique_times, k - 1)
         IN IF n_at_risk > 0 /\ n_events > 0
            THEN FMul(current_survival,
                      FDiv(Float(n_at_risk - n_events, 1), Float(n_at_risk, 1)))
            ELSE current_survival

\* lines 157-163: var_sum after the first k times (Greenwood's formula)
RECURSIVE Greenwood(_, _, _)
Greenwood(at_risk, events, k) ==
    IF k = 0 THEN 0
    ELSE LET n_i == at_risk[k]
             d_i == events[k]
             var_sum == Greenwood(at_risk, events, k - 1)
         IN IF n_i > d_i /\ n_i > 0
            THEN FAdd(var_sum, FDiv(Float(d_i, 1), Float(n_i * (n_i - d_i), 1)))
            ELSE var_sum

EmptyCurve ==
    [timesteps |-> <<>>, survival_prob |-> <<>>, at_risk |-> <<>>, events |-> <<>>,
     confidence_lower |-> <<>>, confidence_upper |-> <<>>]

\* SurvivalAnalyzer(results).compute_survival_curve()
ComputeSurvivalCurve(results) ==
    IF results = <<>> THEN EmptyCurve
    ELSE
      LET unique_times == Sorted({results[i].total_steps : i \in 1..Len(results)})
          ks == 1..Len(unique_times)
          survival_prob == [k \in ks |-> KaplanMeier(results, unique_times, k)]
          at_risk == [k \in ks |->
                        LET at(r) == r.total_steps >= unique_times[k]
                        IN CountWhere(results, at)]
          events == [k \in ks |->
                        LET ev(r) == r.total_steps = unique_times[k] /\ IsFailure(r)
                        IN CountWhere(results, ev)]
          z == Float(196, 100)
          se(k) == LET var_sum == Greenwood(at_risk, events, k)
                   IN IF var_sum > 0 THEN FMul(survival_prob[k], FSqrt(var_sum)) ELSE 0
      IN [timesteps |-> unique_times,
          survival_prob |-> survival_prob,
          at_risk |-> at_risk,
          events |-> events,
          confidence_lower |-> [k \in ks |->
                                  Max(0, FSub(survival_prob[k], FMul(z, se(k))))],
          confidence_upper |-> [k \in ks |->
                                  Min(One, FAdd(survival_prob[k], FMul(z, se(k))))]]

\* SurvivalCurve.survival_at(t)
SurvivalAt(curve, t) ==
    IF t < 0 THEN One
    ELSE IF t >= Len(curve.timesteps)
    THEN IF curve.survival_prob # <<>>
         THEN curve.survival_prob[Len(curve.survival_prob)] ELSE 0
    ELSE LET later == {i \in 1..Len(curve.timesteps) : curve.timesteps[i] > t}
         IN IF later = {} THEN curve.survival_prob[Len(curve.survival_prob)]
            ELSE LET i == MinOf(later)
                 IN IF i > 1 THEN curve.survival_prob[i - 1] ELSE One

MedianIndex(curve) ==
    LET hit == {i \in 1..Len(curve.survival_prob) : curve.survival_prob[i] <= Half}
    IN IF hit = {} THEN NoValue
       ELSE (CHOOSE i \in hit : \A j \in hit : i <= j) - 1

\* SurvivalCurve.median_survival; NoValue stands for None
MedianSurvival(curve) ==
    LET hit == {i \in 1..Len(curve.survival_prob) : curve.survival_prob[i] <= Half}
    IN IF hit = {} THEN NoValue
       ELSE curve.timesteps[CHOOSE i \in hit : \A j \in hit : i <= j]

\* SurvivalAnalyzer(results).get_hazard_rate(time_window): the (t, hazard)
\* pairs for t = 0, time_window, 2*time_window, ... below max_time
HazardRate(results, time_window) ==
    IF results = <<>> THEN <<>>
    ELSE
      LET max_time == MaxOf({results[i].total_steps : i \in 1..Len(results)})
          starts == {t \in 0..max_time : t % time_window = 0 /\ t < max_time}
          at_risk(t) == LET at(r) == r.total_steps >= t IN CountWhere(results, at)
          failures(t) == LET f(r) == IsFailure(r) /\ t <= r.total_steps
                                     /\ r.total_steps < t + time_window
                         IN CountWhere(results, f)
          kept == Sorted({t \in starts : at_risk(t) > 0})
      IN [i \in 1..Len(kept) |->
            <<kept[i], FDiv(Float(failures(kept[i]), 1),
                            Float(at_risk(kept[i]) * time_window, 1))>>]

\* ----------------------------------------------------- metrics/collapse.py
\* CollapseAnalyzer.__init__: (max_steps or max(total_steps)) if results else 100;
\* NoValue stands for max_steps=None
AnalyzerMaxSteps(results, max_steps) ==
    IF results = <<>> THEN 100
    ELSE IF max_steps # NoValue /\ max_steps # 0 THEN max_steps
         ELSE MaxOf({results[i].total_steps : i \in 1..Len(results)})

\* int(max_steps * 0.2) and the like: for binary64 the truncated product is
\* the integer part of max_steps * hundredths / 100
IntOfProduct(max_steps, hundredths) == (max_steps * hundredths) \div 100

Select(results, P(_)) ==
    LET idx == Sorted({i \in 1..Len(results) : P(results[i])})
    IN [k \in 1..Len(idx) |-> results[idx[k]]]

\* any(e.get("is_irreversible", False) for e in events)
HasIrreversible(events) ==
    \E j \in 1..Len(events) :
        "is_irreversible" \in DOMAIN events[j] /\ events[j].is_irreversible

\* CollapseAnalyzer(results, max_steps).compute_metrics() with the default horizons
ComputeCollapseMetrics(results, self_max_steps) ==
    IF results = <<>>
    THEN [collapse_probability |-> 0, mean_time_to_collapse |-> NoValue,
          std_time_to_collapse |-> NoValue, collapse_by_horizon |-> EmptyDict,
          irreversible_collapse_rate |-> 0, early_collapse_rate |-> 0,
          late_collapse_rate |-> 0, total_runs |-> 0, collapse_count |-> 0]
    ELSE
      LET n_total == Len(results)
          failures == Select(results, IsFailure)
          n_failures == Len(failures)
          rate(count) == FDiv(Float(count, 1), Float(n_total, 1))
          failure_times == [i \in 1..n_failures |-> Float(failures[i].total_steps, 1)]
          horizons == {IntOfProduct(self_max_steps, 10), IntOfProduct(self_max_steps, 25),
                       IntOfProduct(self_max_steps, 50), IntOfProduct(self_max_steps, 75),
                       self_max_steps}
          by(horizon) == LET within(r) == r.total_steps <= horizon
                         IN rate(CountWhere(failures, within))
          irreversible(r) == HasIrreversible(r.events_occurred)
          early_threshold == IntOfProduct(self_max_steps, 20)
          late_threshold == IntOfProduct(self_max_steps, 80)
          early(r) == r.total_steps <= early_threshold
          late(r) == r.total_steps >= late_threshold
      IN [collapse_probability |-> rate(n_failures),
          mean_time_to_collapse |-> IF n_failures > 0 THEN FMean(failure_times)
                                    ELSE NoValue,
          std_time_to_collapse |-> IF n_failures > 0 THEN FStd(failure_times)
                                   ELSE NoValue,
          collapse_by_horizon |-> [h \in horizons |-> by(h)],
          irreversible_collapse_rate |-> rate(CountWhere(failures, irreversible)),
          early_collapse_rate |-> rate(CountWhere(failures, early)),
          late_collapse_rate |-> rate(CountWhere(failures, late)),
          total_runs |-> n_total,
          collapse_count |-> n_failures]

\* ------------------------------------------------------- metrics/regret.py
\* sorted(xs) for a list
RECURSIVE SortedList(_)
SortedList(xs) ==
    IF xs = <<>> THEN <<>>
    ELSE LET i == CHOOSE i \in 1..Len(xs) : \A j \in 1..Len(xs) : xs[i] <= xs[j]
         IN <<xs[i]>> \o SortedList(SubSeq(xs, 1, i - 1) \o SubSeq(xs, i + 1, Len(xs)))

\* np.percentile(xs, p) of a non-empty list (linear interpolation between the
\* two nearest ranks)
FPercentile(xs, p) ==
    LET a == SortedList(xs)
        n == Len(xs)
        lo == ((n - 1) * p) \div 100
        hi == Min(lo + 1, n - 1)
        gamma == Float(((n - 1) * p) % 100, 100)
        diff == FSub(a[hi + 1], a[lo + 1])
    IN IF gamma >= Half
       THEN FSub(a[hi + 1], FMul(diff, FSub(One, gamma)))
       ELSE FAdd(a[lo + 1], FMul(diff, gamma))

RegretPercentiles == {10, 25, 50, 75, 90, 95, 99}

\* lines 49-63: the statistics of a non-empty list of regrets
Distribution(regrets) ==
    [regrets |-> regrets,
     mean_regret |-> FMean(regrets),
     std_regret |-> FStd(regrets),
     max_regret |-> MaxOf({regrets[i] : i \in 1..Len(regrets)}),
     median_regret |-> FPercentile(regrets, 50),
     total_regret |-> FSum(regrets),
     regret_percentiles |-> [q \in RegretPercentiles |-> FPercentile(regrets, q)]]

\* from_values without its test for an empty list: np.percentile of an empty
\* array raises
FromValuesUnguarded(regrets) ==
    IF regrets = <<>> THEN [raised |-> "IndexError"] ELSE Distribution(regrets)

\* RegretDistribution.from_values
FromValues(regrets) ==
    IF regrets = <<>>
    THEN [regrets |-> <<>>, mean_regret |-> 0, std_regret |-> 0, max_regret |-> 0,
          median_regret |-> 0, total_regret |-> 0, regret_percentiles |-> EmptyDict]
    ELSE Distribution(regrets)

RegretReversed(optimal_score, r) == FSub(r.outcome_score, optimal_score)
\* self.optimal_score - r.outcome_score
RegretOf(optimal_score, r) == FSub(optimal_score, r.outcome_score)

\* RegretAnalyzer(results, optimal_score).compute_outcome_regret()
ComputeOutcomeRegret(results, optimal_score) ==
    IF results = <<>> THEN FromValues(<<>>)
    ELSE FromValues([i \in 1..Len(results) |-> RegretOf(optimal_score, results[i])])

\* {r.seed: r for r in results}: the last result of each seed
BySeed(results, seed) ==
    results[MaxOf({i \in 1..Len(results) : results[i].seed = seed})]

\* the keys of {r.seed: r for r in results} in insertion order
RECURSIVE SeedOrder(_)
SeedOrder(results) ==
    IF results = <<>> THEN <<>>
    ELSE LET before == SeedOrder(SubSeq(results, 1, Len(results) - 1))
             seed == results[Len(results)].seed
         IN IF \E i \in 1..Len(before) : before[i] = seed THEN before
            ELSE Append(before, seed)

\* RegretAnalyzer(results).compute_relative_regret(baseline_results)
ComputeRelativeRegret(results, baseline_results) ==
    IF results = <<>> \/ baseline_results = <<>> THEN FromValues(<<>>)
    ELSE
      LET seeds == SeedOrder(results)
          matched(seed) == \E i \in 1..Len(baseline_results) :
                              baseline_results[i].seed = seed
          kept == Sorted({k \in 1..Len(seeds) : matched(seeds[k])})
      IN FromValues([k \in 1..Len(kept) |->
            FSub(BySeed(baseline_results, seeds[kept[k]]).outcome_score,
                 BySeed(results, seeds[kept[k]]).outcome_score)])

\* running_regret += regret, for each r in ended
RECURSIVE AddRegrets(_, _, _)
AddRegrets(running_regret, optimal_score, ended) ==
    IF ended = <<>> THEN running_regret
    ELSE AddRegrets(FAdd(running_regret, RegretOf(optimal_score, ended[1])),
                    optimal_score, Tail(ended))

\* (running_regret, running_count) after the timesteps 0..t
RECURSIVE RunningRegret(_, _, _)
RunningRegret(results, optimal_score, t) ==
    IF t < 0 THEN [regret |-> 0, count |-> 0]
    ELSE LET before == RunningRegret(results, optimal_score, t - 1)
             at(r) == r.total_steps = t
             ended == Select(results, at)
         IN [regret |-> AddRegrets(before.regret, optimal_score, ended),
             count |-> before.count + Len(ended)]

\* RegretAnalyzer(results, optimal_score).compute_cumulative_regret()
ComputeCumulativeRegret(results, optimal_score) ==
    IF results = <<>> THEN EmptyDict
    ELSE
      LET max_t == MaxOf({results[i].total_steps : i \in 1..Len(results)})
          running(t) == RunningRegret(results, optimal_score, t)
      IN [t \in {u \in 0..max_t : running(u).count > 0} |->
            FDiv(running(t).regret, Float(running(t).count, 1))]

\* -------------------------------------------------- metrics/sensitivity.py
Scores(results) == [i \in 1..Len(results) |-> results[i].outcome_score]

\* SensitivityAnalyzer.compute_noise_sensitivity
ComputeNoiseSensitivity(results) ==
    IF results = <<>> THEN 0
    ELSE IF Len(results) < 2 THEN 0
    ELSE LET mean == FMean(Scores(results))
             std == FStd(Scores(results))
         IN IF mean > 0 THEN FDiv(std, mean) ELSE std

\* SensitivityAnalyzer.compute_outcome_variance
ComputeOutcomeVariance(results) ==
    IF results = <<>> THEN EmptyDict
    ELSE LET scores == Scores(results)
             survival_times == [i \in 1..Len(results) |-> Float(results[i].total_steps, 1)]
         IN [score_variance |-> FVar(scores),
             score_std |-> FStd(scores),
             score_range |-> FSub(MaxOf({scores[i] : i \in 1..Len(scores)}),
                                  MinOf({scores[i] : i \in 1..Len(scores)})),
             survival_variance |-> FVar(survival_times),
             survival_std |-> FStd(survival_times)]

DefaultGroup == 0 - 1
\* the default state_grouper: the first variable of the initial state
StateGrouper(initial_state) ==
    IF DOMAIN initial_state.variables = {} THEN DefaultGroup
    ELSE initial_state.variables[CHOOSE k \in DOMAIN initial_state.variables : TRUE]

\* lines 155-160: the keys of groups in insertion order
RECURSIVE GroupOrder(_)
GroupOrder(results) ==
    IF results = <<>> THEN <<>>
    ELSE LET before == GroupOrder(SubSeq(results, 1, Len(results) - 1))
             group == StateGrouper(results[Len(results)].initial_state)
         IN IF \E i \in 1..Len(before) : before[i] = group THEN before
            ELSE Append(before, group)

\* SensitivityAnalyzer.compute_initial_condition_sensitivity()
ComputeInitialConditionSensitivity(results) ==
    IF results = <<>> \/ Len(results) < 2 THEN 0
    ELSE
      LET group(r) == StateGrouper(r.initial_state)
          groups == GroupOrder(results)
          in(g) == LET member(r) == group(r) = g IN Scores(Select(results, member))
          group_means == [k \in 1..Len(groups) |-> FMean(in(groups[k]))]
          several == Sorted({k \in 1..Len(groups) : Len(in(groups[k])) > 1})
          between_var == FVar(group_means)
      IN IF Len(groups) < 2 THEN 0
         ELSE IF several = <<>> THEN between_var  \* np.mean([]) is nan; nan > 0 is false
         ELSE LET within_var == FMean([k \in 1..Len(several) |-> FVar(in(groups[several[k]]))])
              IN IF within_var > 0 THEN FDiv(between_var, within_var) ELSE between_var

\* lines 200-203: the fraction of the scores at or below their 10th percentile
TailRisk(scores) ==
    LET threshold == FPercentile(scores, 10)
    IN Float(Cardinality({i \in 1..Len(scores) : scores[i] <= threshold}), Len(scores))

\* lines 207-212: the weighted sum, added left to right
Weighted(noise_sens, failure_rate, score_range, tail_risk) ==
    FAdd(FAdd(FAdd(FMul(Float(3, 10), Min(One, noise_sens)),
                   FMul(Float(3, 10), failure_rate)),
              FMul(Float(2, 10), score_range)),
         FMul(Float(2, 10), tail_risk))

\* min(1.0, max(0.0, brittleness))
Clamp(brittleness) == Min(One, Max(0, brittleness))

\* SensitivityAnalyzer.compute_brittleness_score
ComputeBrittlenessScore(results) ==
    IF results = <<>> THEN 0
    ELSE
      LET scores == Scores(results)
          noise_sens == ComputeNoiseSensitivity(results)
          failure_rate == Float(CountWhere(results, IsFailure), Len(results))
          score_range == FSub(MaxOf({scores[i] : i \in 1..Len(scores)}),
                              MinOf({scores[i] : i \in 1..Len(scores)}))
      IN Clamp(Weighted(noise_sens, failure_rate, score_range, TailRisk(scores)))

\* stability_score=1.0 - brittleness
Stability(brittleness) == FSub(One, brittleness)

\* SensitivityAnalyzer.compute_full_report
ComputeFullReport(results) ==
    LET brittleness == ComputeBrittlenessScore(results)
    IN [noise_sensitivity |-> ComputeNoiseSensitivity(results),
        parameter_sensitivity |-> EmptyDict,
        initial_condition_sensitivity |-> ComputeInitialConditionSensitivity(results),
        brittleness_score |-> brittleness,
        stability_score |-> Stability(brittleness),
        details |-> ComputeOutcomeVariance(results)]

\* ---------------------------------------------------- output/diagnostics.py
IsSuccess(r) == r.outcome = "success"
IsTimeout(r) == r.outcome = "timeout"

\* SwarmResult.success_rate, failure_rate, timeout_rate
OutcomeRate(results, P(_)) ==
    IF results = <<>> THEN 0 ELSE Float(CountWhere(results, P), Len(results))

\* lines 147-157: the letter grade of a stability score
StabilityGrade(stability) ==
    IF stability >= Float(8, 10) THEN "A"
    ELSE IF stability >= Float(6, 10) THEN "B"
    ELSE IF stability >= Float(4, 10) THEN "C"
    ELSE IF stability >= Float(2, 10) THEN "D"
    ELSE "F"

\* lines 171-179
RiskLevel(risk_score) ==
    IF risk_score >= Float(7, 10) THEN "critical"
    ELSE IF risk_score >= Float(5, 10) THEN "high"
    ELSE IF risk_score >= Float(3, 10) THEN "moderate"
    ELSE "low"

\* DecisionDiagnostics._create_risk_profile; key_risks holds the kind of each
\* risk, without the formatted figure
CreateRiskProfile(results, collapse_metrics, sensitivity_report) ==
    LET failure_prob == OutcomeRate(results, IsFailure)
        brittleness == sensitivity_report.brittleness_score
        scores == SortedList(Scores(results))
        n_tail == Max(1, Len(scores) \div 10)
        worst == {i \in 1..Min(n_tail, Len(scores)) : scores[i] < Half}
        tail_risk == Float(Cardinality(worst), Max(1, n_tail))
        risks == (IF failure_prob > Half THEN <<"High failure rate">> ELSE <<>>)
                 \o (IF brittleness > Float(6, 10) THEN <<"Brittle policy">> ELSE <<>>)
                 \o (IF collapse_metrics.early_collapse_rate > Float(2, 10)
                     THEN <<"Early collapse risk">> ELSE <<>>)
                 \o (IF sensitivity_report.noise_sensitivity > Half
                     THEN <<"Noise sensitive">> ELSE <<>>)
        risk_score == FDiv(FAdd(FAdd(failure_prob, brittleness), tail_risk), Float(3, 1))
    IN [failure_probability |-> failure_prob,
        tail_risk |-> tail_risk,
        time_to_failure |-> collapse_metrics.mean_time_to_collapse,
        brittleness |-> brittleness,
        stability_grade |-> StabilityGrade(sensitivity_report.stability_score),
        key_risks |-> risks,
        overall_risk_level |-> RiskLevel(risk_score)]

\* DecisionDiagnostics.from_swarm_result(swarm_result), results being
\* swarm_result.results and total_time_seconds being 0
FromSwarmResult(results) ==
    LET survival_curve == ComputeSurvivalCurve(results)
        collapse_metrics == ComputeCollapseMetrics(results, AnalyzerMaxSteps(results, NoValue))
        regret_dist == ComputeOutcomeRegret(results, One)
        sensitivity_report == ComputeFullReport(results)
    IN [survival_curve |-> survival_curve,
        collapse_metrics |-> collapse_metrics,
        regret_distribution |-> regret_dist,
        sensitivity_report |-> sensitivity_report,
        risk_profile |-> CreateRiskProfile(results, collapse_metrics, sensitivity_report),
        summary |-> [total_runs |-> Len(results),
                     success_rate |-> OutcomeRate(results, IsSuccess),
                     failure_rate |-> OutcomeRate(results, IsFailure),
                     timeout_rate |-> OutcomeRate(results, IsTimeout),
                     mean_score |-> IF results = <<>> THEN 0
                                    ELSE FDiv(FSum(Scores(results)), Float(Len(results), 1)),
                     execution_time |-> 0]]

\* ------------------------------------------- SpecMetrics: the analyzers
MaxResults == 3
MaxTime == 2

\* make_result(outcome, steps, score, seed): the runs an analyzer is given
ResultKinds ==
    {<<"success", One>>, <<"failure", 0>>, <<"timeout", Half>>,
     <<"success", Float(3, 10)>>}

MetricResults ==
    {[outcome |-> k[1], outcome_score |-> k[2], total_steps |-> t,
      events_occurred |-> <<>>, initial_state |-> [variables |-> [value |-> 50]]] :
        k \in ResultKinds, t \in 0..MaxTime}

\* the position of a run in the order the populations are listed in
ListedAt(r) ==
    LET kind == CHOOSE k \in 1..4 :
                   <<r.outcome, r.outcome_score>> =
                       <<<<"failure", 0>>, <<"success", Float(3, 10)>>,
                         <<"timeout", Half>>, <<"success", One>>>>[k]
    IN r.total_steps * 4 + kind

\* every population of up to MaxResults runs, earlier and worse runs first
Populations ==
    UNION {{p \in [1..n -> MetricResults] :
               \A i \in 1..(n - 1) : ListedAt(p[i]) <= ListedAt(p[i + 1])} :
           n \in 0..MaxResults}

\* seeds are the positions in the population
WithSeeds(results) ==
    [i \in 1..Len(results) |-> DictUpdate(results[i], [seed |-> i - 1])]

InitMetrics ==
    /\ NoPipeline
    /\ \E results \in Populations :
          lab = [op |-> "metrics", pc |-> "built", results |-> WithSeeds(results)]

\* curve = SurvivalAnalyzer(results).compute_survival_curve(); curve.median_survival()
SurvivalCurve ==
    /\ lab.op = "metrics"
    /\ lab.pc = "built"
    /\ LET curve == ComputeSurvivalCurve(lab.results)
       IN lab' = [op |-> "metrics", pc |-> "survival", results |-> lab.results,
                  curve |-> curve, median |-> MedianSurvival(curve)]
    /\ UNCHANGED pipeline

\* curve.survival_at(t), for a curve that compute_survival_curve returned
SurvivalAtTime ==
    /\ lab.op = "metrics"
    /\ lab.pc = "survival"
    /\ \E t \in (0 - 1)..(MaxTime + 1) :
          lab' = [op |-> "metrics", pc |-> "survival_at", results |-> lab.results,
                  curve |-> lab.curve, t |-> t,
                  returned |-> SurvivalAt(lab.curve, t)]
    /\ UNCHANGED pipeline

\* SurvivalAnalyzer(results).get_hazard_rate(time_window)
SurvivalHazard ==
    /\ lab.op = "metrics"
    /\ lab.pc = "built"
    /\ \E time_window \in {1, 5} :
          lab' = [op |-> "metrics", pc |-> "hazard", results |-> lab.results,
                  time_window |-> time_window,
                  hazard |-> HazardRate(lab.results, time_window)]
    /\ UNCHANGED pipeline

\* CollapseAnalyzer(results, max_steps).compute_metrics()
CollapseMetrics ==
    /\ lab.op = "metrics"
    /\ lab.pc = "built"
    /\ \E max_steps \in {NoValue} \cup 0..MaxSteps :
          LET self_max_steps == AnalyzerMaxSteps(lab.results, max_steps)
          IN lab' = [op |-> "metrics", pc |-> "collapse", results |-> lab.results,
                     max_steps |-> max_steps, self_max_steps |-> self_max_steps,
                     metrics |-> ComputeCollapseMetrics(lab.results, self_max_steps)]
    /\ UNCHANGED pipeline

\* RegretAnalyzer(results, optimal_score=1.0): compute_outcome_regret(),
\* compute_cumulative_regret()
RegretOutcome ==
    /\ lab.op = "metrics"
    /\ lab.pc = "built"
    /\ lab' = [op |-> "metrics", pc |-> "regret", results |-> lab.results,
               optimal_score |-> One,
               dist |-> ComputeOutcomeRegret(lab.results, One),
               cumulative |-> ComputeCumulativeRegret(lab.results, One)]
    /\ UNCHANGED pipeline

\* RegretAnalyzer(results).compute_relative_regret(baseline_results), the
\* baseline being nothing, the same runs, or the first of them
RegretRelative ==
    /\ lab.op = "metrics"
    /\ lab.pc = "built"
    /\ \E baseline \in {<<>>, lab.results,
                        IF lab.results = <<>> THEN <<>> ELSE <<lab.results[1]>>} :
          lab' = [op |-> "metrics", pc |-> "relative", results |-> lab.results,
                  baseline |-> baseline,
                  dist |-> ComputeRelativeRegret(lab.results, baseline)]
    /\ UNCHANGED pipeline

\* SensitivityAnalyzer(results).compute_full_report()
SensitivityReport ==
    /\ lab.op = "metrics"
    /\ lab.pc = "built"
    /\ lab' = [op |-> "metrics", pc |-> "sensitivity", results |-> lab.results,
               report |-> ComputeFullReport(lab.results)]
    /\ UNCHANGED pipeline

\* DecisionDiagnostics.from_swarm_result(SwarmResult(results, ...))
Diagnostics ==
    /\ lab.op = "metrics"
    /\ lab.pc = "built"
    /\ lab' = [op |-> "metrics", pc |-> "diagnostics", results |-> lab.results,
               diagnostics |-> FromSwarmResult(lab.results)]
    /\ UNCHANGED pipeline

NextMetrics ==
    \/ SurvivalCurve
    \/ SurvivalAtTime
    \/ SurvivalHazard
    \/ CollapseMetrics
    \/ RegretOutcome
    \/ RegretRelative
    \/ SensitivityReport
    \/ Diagnostics

SpecMetrics == InitMetrics /\ [][NextMetrics]_vars

\* ------------------------- SpecTriggers: CollapseAnalyzer.get_collapse_triggers
\* float('inf') and the finite floats, as the values of the returned dict
Infinite == [infinite |-> TRUE, value |-> 0]
Finite(x) == [infinite |-> FALSE, value |-> x]

\* lines 194-202: the entry of failure_events / success_events for a name,
\* one for every record of that name in the event lists of the results
RECURSIVE EventCount(_, _)
EventCount(results, name) ==
    IF results = <<>> THEN 0
    ELSE LET events == Head(results).events_occurred
         IN Cardinality({j \in 1..Len(events) : events[j].name = name})
            + EventCount(Tail(results), name)

EventNames(results) ==
    UNION {{results[i].events_occurred[j].name :
               j \in 1..Len(results[i].events_occurred)} : i \in 1..Len(results)}

\* lines 205-218: triggers, before it is sorted
TriggerRisks(results) ==
    LET failures == Select(results, IsFailure)
        successes == Select(results, IsSuccess)
        all_events == EventNames(failures) \cup EventNames(successes)
    IN IF results = <<>> \/ failures = <<>> \/ successes = <<>> THEN EmptyDict
       ELSE [event_name \in all_events |->
               LET fail_rate == FDiv(Float(EventCount(failures, event_name), 1),
                                     Float(Len(failures), 1))
                   success_rate == FDiv(Float(EventCount(successes, event_name), 1),
                                        Float(Len(successes), 1))
               IN IF success_rate > 0 THEN Finite(FDiv(fail_rate, success_rate))
                  ELSE IF fail_rate > 0 THEN Infinite ELSE Finite(One)]

\* the order of sorted(..., key=lambda x: -x[1])
RiskAtLeast(x, y) == x.infinite \/ (~y.infinite /\ x.value >= y.value)

\* line 221: the items in descending order of risk; equal risks keep the order
\* in which the set all_events happened to be iterated, which is any order
SortedTriggers(triggers) ==
    LET names == DOMAIN triggers
        n == Cardinality(names)
    IN {[i \in 1..n |-> <<order[i], triggers[order[i]]>>] :
           order \in {o \in [1..n -> names] :
                         /\ \A i, j \in 1..n : i # j => o[i] # o[j]
                         /\ \A i, j \in 1..n :
                               i < j => RiskAtLeast(triggers[o[i]], triggers[o[j]])}}

Occurred(event, timestep) == OccurrenceRecord(event, [timestep |-> timestep])

OccurredLists ==
    {<<>>, <<Occurred(Quit, 0)>>, <<Occurred(Quit, 0), Occurred(Quit, 2)>>,
     <<Occurred(Creep, 1)>>, <<Occurred(Creep, 0), Occurred(Quit, 0)>>}

TriggerResults ==
    {[outcome |-> "failure", outcome_score |-> 0, total_steps |-> 3,
      events_occurred |-> events] : events \in OccurredLists}
    \cup {[outcome |-> "success", outcome_score |-> One, total_steps |-> 3,
           events_occurred |-> events] : events \in OccurredLists}
    \cup {[outcome |-> "timeout", outcome_score |-> Half, total_steps |-> 3,
           events_occurred |-> <<Occurred(Quit, 0)>>]}

InitTriggers ==
    /\ NoPipeline
    /\ \E n \in 0..MaxResults : \E results \in [1..n -> TriggerResults] :
          lab = [op |-> "triggers", pc |-> "built", results |-> results]

\* CollapseAnalyzer(results).get_collapse_triggers()
CollapseTriggers ==
    /\ lab.op = "triggers"
    /\ lab.pc = "built"
    /\ \E returned \in SortedTriggers(TriggerRisks(lab.results)) :
          lab' = [op |-> "triggers", pc |-> "returned", results |-> lab.results,
                  triggers |-> returned]
    /\ UNCHANGED pipeline

NextTriggers == CollapseTriggers

SpecTriggers == InitTriggers /\ [][NextTriggers]_vars

\* --------------------------------------------------- policies/rule_based.py
\* _last_matched_rule = None (rules are named 1, 2, ...)
NoRule == 0
NoAction == None
NoFallback == "None"

\* rule.condition(context) for the conditions the rules are built from: always(),
\* a test of the state's value, and a condition that fails on every context
Condition(kind, context) ==
    CASE kind = "always" -> "True"
      [] kind = "low" -> IF context.value < 30 THEN "True" ELSE "False"
      [] kind = "broken" -> "raised"

\* Rule.matches: an exception in the condition counts as no match
Matches(rule, context) == Condition(rule.condition, context) = "True"

\* sorted(rules, key=lambda r: -r.priority), a stable sort
RECURSIVE SortByPriority(_)
SortByPriority(rules) ==
    IF rules = <<>> THEN <<>>
    ELSE LET before == SortByPriority(SubSeq(rules, 1, Len(rules) - 1))
             rule == rules[Len(rules)]
             ahead == Cardinality({i \in 1..Len(before) : before[i].priority >= rule.priority})
         IN SubSeq(before, 1, ahead) \o <<rule>> \o SubSeq(before, ahead + 1, Len(before))

\* RuleBasedPolicy(rules, fallback_action_name)
NewRuleBasedPolicy(rules, fallback_action_name) ==
    [_rules |-> SortByPriority(rules),
     _fallback_action_name |-> fallback_action_name,
     _last_matched_rule |-> NoRule,
     _decision_count |-> 0]

\* RuleBasedPolicy.add_rule
AddRuleTo(self, rule) == [self EXCEPT !._rules = SortByPriority(Append(self._rules, rule))]

\* lines 120-125: the first rule in self._rules that matches and whose action
\* the context offers; 0 if there is none
SelectedRule(self, context) ==
    LET yields == {i \in 1..Len(self._rules) :
                      /\ Matches(self._rules[i], context)
                      /\ GetActionByName(context.available_actions, self._rules[i].action_name) # NoAction}
    IN IF yields = {} THEN 0 ELSE MinOf(yields)

\* RuleBasedPolicy.decide: the policy afterwards and what the call returned or raised
RuleDecide(self, context) ==
    LET counted == [self EXCEPT !._decision_count = @ + 1, !._last_matched_rule = NoRule]
        i == SelectedRule(self, context)
        fallback == IF self._fallback_action_name = NoFallback THEN NoAction
                    ELSE GetActionByName(context.available_actions, self._fallback_action_name)
    IN IF i # 0
       THEN [self |-> [counted EXCEPT !._last_matched_rule = self._rules[i].name],
             returned |-> self._rules[i].action_name, raised |-> "None"]
       ELSE IF fallback # NoAction
       THEN [self |-> counted, returned |-> fallback, raised |-> "None"]
       ELSE IF context.available_actions # <<>>
       THEN [self |-> counted, returned |-> context.available_actions[1], raised |-> "None"]
       ELSE [self |-> counted, returned |-> NoAction, raised |-> "IndexError"]

\* RuleBasedPolicy.explain_decision: the names of the matching rules and of the
\* rule reported as selected
ExplainDecision(self, context) ==
    LET matching == SelectSeq(self._rules, LAMBDA r : Matches(r, context))
    IN [matching_rules |-> [i \in 1..Len(matching) |-> matching[i].name],
        selected_rule |-> IF matching = <<>> THEN NoRule ELSE matching[1].name,
        total_rules |-> Len(self._rules)]

\* ------------------------------------------------ SpecRules: RuleBasedPolicy
MaxRules == 2
MaxDecisions == 2

\* Rule(name, condition, action_name, priority); a rule is named after its
\* place among the rules given to the policy
RuleArguments ==
    [condition : {"always", "low", "broken"},
     action_name : {"action1", "action9"},
     priority : {0, 100}]

Named(rule, place) == DictUpdate(rule, [name |-> place])

\* make_context({"value": v}, actions)
Contexts ==
    [value : {20, 50},
     available_actions : {<<"action1", "action2">>, <<"action2">>, <<>>}]

\* policy = RuleBasedPolicy(rules, fallback_action_name)
InitRules ==
    /\ NoPipeline
    /\ \E n \in 0..(MaxRules - 1) : \E rules \in [1..n -> RuleArguments] :
       \E fallback_action_name \in {NoFallback, "action2", "action9"} :
          lab = [op |-> "rules", pc |-> "ready",
                 given |-> n,
                 policy |-> NewRuleBasedPolicy([i \in 1..n |-> Named(rules[i], i)],
                                               fallback_action_name)]

\* policy.add_rule(Rule(...))
AddRule ==
    /\ lab.op = "rules"
    /\ lab.pc = "ready"
    /\ lab.given < MaxRules
    /\ \E rule \in RuleArguments :
          lab' = [lab EXCEPT !.given = @ + 1,
                             !.policy = AddRuleTo(@, Named(rule, lab.given + 1))]
    /\ UNCHANGED pipeline

\* policy.decide(context)
RulesDecide ==
    /\ lab.op = "rules"
    /\ lab.pc \in {"ready", "decided", "explained"}
    /\ lab.policy._decision_count < MaxDecisions
    /\ \E context \in Contexts :
          LET call == RuleDecide(lab.policy, context)
          IN lab' = [op |-> "rules", pc |-> "decided", given |-> lab.given,
                     policy |-> call.self, context |-> context,
                     returned |-> call.returned, raised |-> call.raised]
    /\ UNCHANGED pipeline

\* policy.explain_decision(context), for the context of the last decision
RulesExplain ==
    /\ lab.op = "rules"
    /\ lab.pc = "decided"
    /\ lab' = [op |-> "rules", pc |-> "explained", given |-> lab.given,
               policy |-> lab.policy, context |-> lab.context,
               returned |-> lab.returned, raised |-> lab.raised,
               explanation |-> ExplainDecision(lab.policy, lab.context)]
    /\ UNCHANGED pipeline

NextRules ==
    \/ AddRule
    \/ RulesDecide
    \/ RulesExplain

SpecRules == InitRules /\ [][NextRules]_vars

\* ==================================================== engine/events, on its own
\* One SimpleEventGenerator, called directly: sample_events with states of any
\* timestep, apply_event for the events a call returned.
MaxCalls == 3        \* sample_events calls on the generator
MaxTimestep == 3     \* largest timestep of a state passed to it

Outage == Event("outage", 5, 9, TRUE, 1)
Never == Event("never", 0, 3, FALSE, 0)
GeneratorEvents ==
    {Quit, Creep, Outage, Never,
     WithModifier(Quit, "half"), WithModifier(Creep, "double"),
     WithModifier(Creep, "negative"), WithModifier(Outage, "late"),
     WithModifier(Never, "double"), WithModifier(Never, "late")}
GeneratorLists ==
    {<<e>> : e \in GeneratorEvents}
    \cup {<<e, f>> : e \in {Quit, Outage, WithModifier(Outage, "late")},
                     f \in {g \in GeneratorEvents : g.name \notin {"team_member_quits", "outage"}}}
    \cup {<<Quit, Outage>>, <<Creep, Quit>>}

InitEvents ==
    /\ NoPipeline
    /\ \E events \in GeneratorLists : \E seed \in Seeds : \E init_list \in BOOLEAN :
          lab = [op |-> "events", pc |-> "ready",
                 events |-> events, cooldowns |-> EmptyDict,
                 rng |-> CreateRng(seed), calls |-> 0, firings |-> {},
                 state |-> WorldState(0, [value |-> 50], FALSE, None,
                                      IF init_list THEN [events_occurred |-> 1]
                                      ELSE EmptyDict),
                 heap |-> IF init_list THEN << <<>> >> ELSE <<>>,
                 pending |-> <<>>]

\* occurred = generator.sample_events(state, rng), the state at any timestep
EventsSample ==
    /\ lab.op = "events"
    /\ lab.calls < MaxCalls
    /\ \E timestep \in 0..MaxTimestep :
          LET state == Evolve(lab.state, [timestep |-> timestep])
              call == SampleEvents(lab.events, state, lab.rng, lab.cooldowns)
          IN lab' = [op |-> "events", pc |-> "sampled",
                     events |-> lab.events, cooldowns |-> call.cooldowns,
                     rng |-> call.rng, calls |-> lab.calls + 1,
                     firings |-> lab.firings \cup
                         {[name |-> call.occurred[i].name, timestep |-> timestep] :
                              i \in 1..Len(call.occurred)},
                     state |-> state, heap |-> lab.heap,
                     pending |-> call.occurred,
                     earlier |-> lab.firings, drawn_from |-> lab.rng,
                     occurred |-> call.occurred]
    /\ UNCHANGED pipeline

\* state = generator.apply_event(state, event, rng), for the next event returned
EventsApply ==
    /\ lab.op = "events"
    /\ lab.pc \in {"sampled", "applied"}
    /\ lab.pending # <<>>
    /\ LET event == Head(lab.pending)
           call == ApplyEvent(lab.state, event, lab.heap)
       IN lab' = [op |-> "events", pc |-> "applied",
                  events |-> lab.events, cooldowns |-> lab.cooldowns,
                  rng |-> lab.rng, calls |-> lab.calls, firings |-> lab.firings,
                  state |-> call.state, heap |-> call.heap,
                  pending |-> Tail(lab.pending),
                  event |-> event, given |-> lab.state, given_heap |-> lab.heap]
    /\ UNCHANGED pipeline

NextEvents ==
    \/ EventsSample
    \/ EventsApply

SpecEvents == InitEvents /\ [][NextEvents]_vars


\* ================================================================ claims
RECURSIVE Flatten(_)
Flatten(ss) == IF ss = <<>> THEN <<>> ELSE Head(ss) \o Flatten(Tail(ss))

CallOrder == <<"get_available_actions", "decide", "step", "apply_events",
               "check_terminal">>

\* The calls c follow the fixed order, each stage fed by the one before it.
WellOrdered(c) ==
    /\ Len(c) <= Len(CallOrder)
    /\ \A i \in 1..Len(c) : c[i].call = CallOrder[i]
    /\ Len(c) >= 2 => /\ c[2].arg.state = c[1].arg
                      /\ c[2].arg.available_actions = c[1].ret
    /\ Len(c) >= 3 => c[3].arg = c[1].arg
    /\ Len(c) >= 4 => c[4].arg = c[3].ret
    /\ Len(c) >= 5 => c[5].arg = c[4].ret

\* C1: in every iteration of Simulator.run that records a step the calls are
\* get_available_actions, decide, step, apply_events, check_terminal in this
\* order; apply_events receives the state step returned, check_terminal the
\* state apply_events returned, and the recorded state_after is its result.
C1_CallOrder ==
    \A t \in DOMAIN sim :
        LET s == sim[t]
        IN /\ WellOrdered(s.calls)
           /\ Len(s.call_log) = Len(s.trajectory)
           /\ \A i \in 1..Len(s.call_log) :
                 /\ Len(s.call_log[i]) = Len(CallOrder)
                 /\ WellOrdered(s.call_log[i])
                 /\ s.trajectory[i].state_after = Snapshot(s.call_log[i][5].ret)

\* A recorded step in which an event fired (apply_events changed the state)
\* and check_terminal then ended the run.
C1_Witness ==
    \E t \in DOMAIN sim : \E i \in 1..Len(sim[t].call_log) :
        LET c == sim[t].call_log[i]
        IN /\ c[4].ret # c[4].arg
           /\ c[5].ret.is_terminal
           /\ c[3].ret # c[3].arg

SameRun(a, b) ==
    /\ a.trajectory = b.trajectory
    /\ a.outcome = b.outcome
    /\ a.outcome_score = b.outcome_score

\* C2: two Simulator.run invocations with the same seed give the same
\* trajectory, outcome and outcome_score, for freshly built worlds and for the
\* same Simulator/World run twice in a row (here with a policy that carries no
\* state from one run to the next).
C2_SameSeedSameRun ==
    \A i \in 1..Len(runs) :
        (/\ runs[i].seed = runs[1].seed
         /\ (pcfg.kind # "random" \/ setup[i].fresh_policy))
        => SameRun(runs[1], runs[i])

\* C3: each trajectory entry's "events" are the records appended during that
\* step, and SimulationResult.events_occurred is their concatenation, so every
\* event that fired appears exactly once.
C3_EventsRecorded ==
    \A t \in DOMAIN sim :
        sim[t].pc = "done" =>
            LET s == sim[t]
            IN /\ \A i \in 1..Len(s.trajectory) : s.trajectory[i].events = s.fired[i]
               /\ s.result.events_occurred = Flatten(s.fired)

TerminalReasons == {"success", "failure", "timeout"}

TerminalIffReason(state) == state.is_terminal <=> state.terminal_reason # None

FinalStateClaim(s) ==
    /\ s.result.final_state.is_terminal
    /\ s.result.final_state.terminal_reason \in TerminalReasons
    /\ s.result.outcome = s.result.final_state.terminal_reason

ProperWorld(wc) == wc.high_reason \in {"success", "failure"}

C5_TimeoutOutcome ==
    \A t \in DOMAIN sim :
        sim[t].pc = "done" =>
            LET s == sim[t]
            IN /\ ~s.loop_exit.is_terminal =>
                    /\ s.result.outcome = "timeout"
                    /\ s.result.final_state.is_terminal
                    /\ s.result.final_state.terminal_reason = "timeout"
                    /\ s.result.final_state = StateToDict(s.state)
                    /\ s.result.outcome_score = GetOutcomeScore(s.state)
                    /\ s.score_calls = 1
               /\ (s.loop_exit.is_terminal /\ s.result.total_steps = scfg.max_steps) =>
                    /\ s.result.outcome = s.loop_exit.terminal_reason
                    /\ s.result.final_state = StateToDict(s.loop_exit)

\* The run ended because get_available_actions returned no action.
C5_Witness ==
    \E t \in DOMAIN sim :
        /\ sim[t].pc = "done"
        /\ ~sim[t].loop_exit.is_terminal
        /\ sim[t].result.total_steps < scfg.max_steps
        /\ sim[t].result.total_steps > 0
        /\ sim[t].result.outcome = "timeout"

\* The policy.decide calls among the given collaborator calls
Decisions(calls) == Cardinality({i \in 1..Len(calls) : calls[i].call = "decide"})

RECURSIVE DecisionsIn(_)
DecisionsIn(call_log) ==
    IF call_log = <<>> THEN 0
    ELSE Decisions(Head(call_log)) + DecisionsIn(Tail(call_log))

\* C21: a step is recorded exactly for the iterations in which the policy
\* decided, and policy.decide is only called on a non-terminal state with at
\* least one available action; an iteration that finds the state terminal or no
\* action available ends the loop with no further collaborator call and no
\* trajectory entry.  So total_steps = len(trajectory) = the decide calls of the
\* run, and never more than max_steps.
C21_StepsAreDecisions ==
    LET s == sim[0]
    IN /\ s.step <= scfg.max_steps
       /\ Len(s.trajectory) = s.step
       /\ DecisionsIn(s.call_log) = Len(s.trajectory)
       /\ \A i \in 1..Len(s.call_log) : \A k \in 1..Len(s.call_log[i]) :
             s.call_log[i][k].call = "decide" =>
                /\ ~s.call_log[i][k].arg.state.is_terminal
                /\ s.call_log[i][k].arg.available_actions # <<>>
       /\ s.pc \in {"finish", "done"} =>
             /\ Decisions(s.calls) = 0
             /\ \/ s.calls = <<>>
                \/ /\ Len(s.calls) = 1
                   /\ s.calls[1].call = "get_available_actions"
                   /\ s.calls[1].ret = <<>>
                   /\ ~s.loop_exit.is_terminal
             /\ s.calls = <<>> => (s.loop_exit.is_terminal \/ s.step = scfg.max_steps)
       /\ s.pc = "done" =>
             /\ s.result.total_steps = Len(s.result.trajectory)
             /\ s.result.total_steps = DecisionsIn(s.call_log)
             /\ s.result.total_steps <= scfg.max_steps

\* A run whose initial state is terminal: it ends with no step and no call.
C21_Witness ==
    /\ sim[0].pc = "done"
    /\ sim[0].result.initial_state.is_terminal
    /\ sim[0].result.total_steps = 0
    /\ sim[0].calls = <<>>

\* C26: the policy's counter is reset between the runs of one Simulator, so
\* that after any run of a counting policy decision_count is the number of
\* decisions of that run alone.
C26_CountIsPerRun ==
    (sim[0].pc = "done" /\ policy.kind = "random" /\ fault[0] = "none") =>
        policy.decision_count = DecisionsIn(sim[0].call_log)

\* ------------------------------------------------------ claims on the swarm
Count(entries, seed) ==
    Cardinality({i \in 1..Len(entries) : entries[i].seed = seed})

FreshPolicy == NewPolicy(pcfg.kind, pcfg.seed)
NoFaults == [t \in Tasks |-> "none"]

\* C6: every SwarmResult returned by run or run_sequential has
\* successful_runs + failed_runs = n_worlds, successful_runs = len(results),
\* failed_runs = len(errors), and each seed base_seed .. base_seed+n_worlds-1
\* in exactly one of results and errors, whichever worlds raised.
C6_RunsAccounted ==
    \A k \in 1..Len(runs) :
        LET r == runs[k]
        IN /\ r.successful_runs + r.failed_runs = r.config.n_worlds
           /\ r.successful_runs = Len(r.results)
           /\ r.failed_runs = Len(r.errors)
           /\ \A t \in 0..(r.config.n_worlds - 1) :
                 Count(r.results, r.config.base_seed + t)
                    + Count(r.errors, r.config.base_seed + t) = 1

\* A parallel call has returned with a failed world and a successful one.
C6_Witness ==
    /\ ex.phase = "returned"
    /\ ex.mode = "parallel"
    /\ runs[Len(runs)].failed_runs >= 1
    /\ runs[Len(runs)].successful_runs >= 1

\* C7: a seed whose simulation raises gets exactly one error entry (seed,
\* message, type name) and no result; every other seed gets its result, and
\* under run_sequential that result is the one it has when no world fails.
C7_ErrorsIsolated ==
    ex.phase = "returned" =>
        LET r == runs[Len(runs)]
            healthy == RunSequential(FreshPolicy, ex.config, NoFaults)
        IN \A t \in Tasks :
              IF fault[t] # "none"
              THEN /\ Count(r.results, SeedOf(t)) = 0
                   /\ Count(r.errors, SeedOf(t)) = 1
                   /\ \E i \in 1..Len(r.errors) :
                         r.errors[i] = [seed |-> SeedOf(t),
                                        error |-> ExceptionAt(fault[t]).message,
                                        error_type |-> ExceptionAt(fault[t]).type]
              ELSE /\ Count(r.errors, SeedOf(t)) = 0
                   /\ Count(r.results, SeedOf(t)) = 1
                   /\ ex.mode = "sequential" =>
                         \A i \in 1..Len(r.results) :
                            \A j \in 1..Len(healthy.results) :
                               r.results[i].seed = healthy.results[j].seed
                               => SameRun(r.results[i], healthy.results[j])

\* C8: with timeout_seconds set, a world whose simulation lasted longer than
\* the timeout (one loop iteration taking one second) is in the errors of the
\* SwarmResult run returns and not in its results.
C8_TimeoutRecorded ==
    (/\ ex.phase = "returned"
     /\ ex.mode = "parallel"
     /\ ex.config.timeout_seconds # NoTimeout)
    => \A t \in Tasks :
          sim[t].step > ex.config.timeout_seconds
          => /\ Count(runs[Len(runs)].errors, SeedOf(t)) = 1
             /\ Count(runs[Len(runs)].results, SeedOf(t)) = 0

\* C9: the SimulationResult run obtains for a seed (trajectory, outcome,
\* outcome_score) is the same in every interleaving of the worker tasks and
\* for every worker count: it is the one of the schedule in which the tasks
\* run one after another in submission order, as with a single worker.
C9_InterleavingIndependent ==
    (ex.phase = "returned" /\ ex.mode = "parallel") =>
        LET r == runs[Len(runs)]
            serial == RunSequential(FreshPolicy, ex.config, fault)
        IN \A i \in 1..Len(r.results) :
              \E j \in 1..Len(serial.results) :
                 /\ serial.results[j].seed = r.results[i].seed
                 /\ SameRun(serial.results[j], r.results[i])

Population(r) ==
    [outcomes |-> {<<r.results[i].seed, r.results[i].outcome,
                     r.results[i].total_steps, r.results[i].outcome_score>> :
                       i \in 1..Len(r.results)},
     error_seeds |-> {r.errors[i].seed : i \in 1..Len(r.errors)}]

\* C10: run (parallel) returns the population run_sequential returns for the
\* same factory, configuration and policy: the same seed -> (outcome,
\* total_steps, outcome_score) and the same error seeds.
C10_SequentialEqualsParallel ==
    (ex.phase = "returned" /\ ex.mode = "parallel") =>
        Population(runs[Len(runs)])
           = Population(RunSequential(FreshPolicy, ex.config, fault))

\* With one worker, run returns what run_sequential returns, up to the order
\* in which the finished futures are collected.
OneWorkerIsSerial ==
    (ex.phase = "returned" /\ ex.mode = "parallel" /\ ex.config.max_workers = 1) =>
        LET a == runs[Len(runs)]
            b == RunSequential(FreshPolicy, ex.config, fault)
        IN /\ {a.results[i] : i \in 1..Len(a.results)}
                 = {b.results[i] : i \in 1..Len(b.results)}
           /\ {a.errors[i] : i \in 1..Len(a.errors)}
                 = {b.errors[i] : i \in 1..Len(b.errors)}

\* ------------------------------------------------- claims on WorldState
\* What the claim says of s.evolve(**u), but for its last clause.
EvolveMerges ==
    LET u == lab.updates
        out == DeepObj(lab.objs, lab.out)
        special(k, old) == IF k \in DOMAIN u THEN u[k] ELSE old
    IN /\ DeepObj(lab.objs, lab.s) = lab.before
       /\ lab.out.variables # lab.s.variables
       /\ out.variables
             = DictUpdate(lab.before.variables,
                          [k \in (DOMAIN u) \ SpecialFields |-> u[k]])
       /\ out.timestep = special("timestep", lab.before.timestep)
       /\ out.is_terminal = special("is_terminal", lab.before.is_terminal)
       /\ out.terminal_reason = special("terminal_reason", lab.before.terminal_reason)
       /\ out.metadata = IF "metadata" \in DOMAIN u THEN lab.objs[u["metadata"]]
                         ELSE lab.before.metadata

\* C11 as stated: for any WorldState s and updates u, evolve leaves s
\* unchanged, merges the non-special keys of u over s.variables, takes each
\* special field from u when present and from s otherwise, and no special key
\* is among the returned variables.
C11_EvolveAnyState ==
    (lab.op = "evolve" /\ lab.pc = "returned") =>
        /\ EvolveMerges
        /\ (DOMAIN lab.objs[lab.out.variables]) \cap SpecialFields = {}

\* C11 (amended): evolve leaves s unchanged, merges the non-special keys of u
\* over s.variables in a new mapping, takes each special field from u when
\* present and from s otherwise; a special key is among the returned
\* variables only when s.variables already held it.
C11_EvolveFrame ==
    (lab.op = "evolve" /\ lab.pc = "returned") =>
        /\ EvolveMerges
        /\ (DOMAIN lab.objs[lab.out.variables]) \cap SpecialFields
              = (DOMAIN lab.before.variables) \cap SpecialFields

\* evolve overrode a variable s held and a special field in the same call.
C11_Witness ==
    /\ lab.op = "evolve"
    /\ lab.pc = "returned"
    /\ {"value", "timestep", "metadata"} \subseteq DOMAIN lab.updates
    /\ "value" \in DOMAIN lab.before.variables
    /\ lab.objs[lab.out.variables]["value"] # lab.before.variables["value"]

\* ------------------------------------------------ claims on the ramp world
RampOutcome == IF pcfg.kind = "increase" THEN "success" ELSE "failure"

RampEnded ==
    /\ sim[0].pc = "done"
    /\ sim[0].result.total_steps = 5
    /\ sim[0].result.outcome = RampOutcome

\* C12: in the ramp world with max_steps = 20 a run with the always-increase
\* policy ends, after exactly 5 steps and with outcome "success"; a run with
\* the always-decrease policy ends, after exactly 5 steps and with outcome
\* "failure".
C12_RampEnds ==
    /\ [](sim[0].pc = "done" => RampEnded)
    /\ (sim[0].pc = "loop" /\ sim[0].step = 0) ~> RampEnded

\* The always-decrease run has ended.
C12_Witness ==
    /\ pcfg.kind = "decrease"
    /\ sim[0].pc = "done"
    /\ sim[0].result.outcome = "failure"
    /\ Len(sim[0].result.trajectory) = 5

\* ---------------------------------------------- claims on construction
ValidEvent(args) ==
    /\ 0 <= args.probability /\ args.probability <= 10
    /\ 0 <= args.severity /\ args.severity <= 10

ValidSwarmConfig(args) ==
    /\ args.n_worlds >= 1
    /\ args.executor_type \in {"thread", "process"}
    /\ args.max_workers = NoValue \/ args.max_workers >= 1
    /\ args.timeout_seconds = NoTimeout \/ args.timeout_seconds > 0

\* C13: Event(...) is constructed iff probability and severity are in [0,1];
\* SwarmConfig(...) is constructed iff n_worlds, executor_type, the worker
\* count and the timeout are all valid, so run never raises because of a
\* configuration value.
C13_EagerValidation ==
    /\ lab.op = "Event" =>
          /\ lab.pc = "constructed" => ValidEvent(lab.args)
          /\ lab.pc = "rejected" => ~ValidEvent(lab.args)
    /\ lab.op = "SwarmConfig" =>
          /\ lab.pc \in {"constructed", "submitted"} => ValidSwarmConfig(lab.args)
          /\ lab.pc = "rejected" => ~ValidSwarmConfig(lab.args)
          /\ lab.pc # "run raised"

\* ------------------------------------------------- claims on the metrics
NoneFailed(results) == \A i \in 1..Len(results) : ~IsFailure(results[i])
AllFailedAt(results, T) ==
    \A i \in 1..Len(results) : IsFailure(results[i]) /\ results[i].total_steps = T

\* C14: for N >= 1 runs none of which failed the last survival probability is
\* exactly 1.0 and median_survival() is None; for N >= 1 runs that all failed
\* at the same time T the last survival probability is exactly 0.0 and
\* median_survival() is T.
C14_SurvivalBoundary ==
    (lab.op = "metrics" /\ lab.pc = "survival" /\ lab.results # <<>>) =>
        LET last == lab.curve.survival_prob[Len(lab.curve.survival_prob)]
        IN /\ NoneFailed(lab.results) => (last = One /\ lab.median = NoValue)
           /\ \A T \in 0..MaxTime :
                 AllFailedAt(lab.results, T) => (last = 0 /\ lab.median = T)

\* Three runs that all failed at time 0.
C14_Witness ==
    /\ lab.op = "metrics"
    /\ lab.pc = "survival"
    /\ Len(lab.results) = 3
    /\ AllFailedAt(lab.results, 0)
    /\ lab.median = 0

\* C15: for every non-empty population and every max_steps, given or
\* defaulted, early_collapse_rate and late_collapse_rate are in [0,1], their
\* sum is at most 1.0, and no failed run is both an early and a late collapse.
C15_EarlyLateDisjoint ==
    (lab.op = "metrics" /\ lab.pc = "collapse" /\ lab.results # <<>>) =>
        LET early == lab.metrics.early_collapse_rate
            late == lab.metrics.late_collapse_rate
        IN /\ 0 <= early /\ early <= One
           /\ 0 <= late /\ late <= One
           /\ FAdd(early, late) <= One
           /\ \A i \in 1..Len(lab.results) :
                 ~(/\ IsFailure(lab.results[i])
                   /\ lab.results[i].total_steps
                         <= IntOfProduct(lab.self_max_steps, 20)
                   /\ lab.results[i].total_steps
                         >= IntOfProduct(lab.self_max_steps, 80))

AllScore(results, score) ==
    \A i \in 1..Len(results) : results[i].outcome_score = score

\* C16: each run's regret is optimal_score - outcome_score; with optimal_score
\* 1.0 a non-empty population scoring 1.0 throughout has mean and max regret
\* exactly 0, one scoring 0.0 throughout has mean and max regret exactly 1.0.
C16_OutcomeRegret ==
    (lab.op = "metrics" /\ lab.pc = "regret" /\ lab.results # <<>>) =>
        /\ Len(lab.dist.regrets) = Len(lab.results)
        /\ \A i \in 1..Len(lab.results) :
              lab.dist.regrets[i] = Round(lab.optimal_score - lab.results[i].outcome_score)
        /\ AllScore(lab.results, One) =>
              (lab.dist.mean_regret = 0 /\ lab.dist.max_regret = 0)
        /\ AllScore(lab.results, 0) =>
              (lab.dist.mean_regret = One /\ lab.dist.max_regret = One)

\* Three runs that all scored 0.0.
C16_Witness ==
    /\ lab.op = "metrics"
    /\ lab.pc = "regret"
    /\ Len(lab.results) = 3
    /\ AllScore(lab.results, 0)
    /\ lab.dist.total_regret # 0

TailRiskBelowHalf(scores) ==
    LET threshold == FPercentile(scores, 10)
    IN Float(Cardinality({i \in 1..Len(scores) :
                             scores[i] <= threshold /\ scores[i] < Half}),
             Len(scores))

\* C18: the brittleness score is the clamped weighted sum of noise sensitivity,
\* failure rate, score range and tail risk, where a score at or below the 10th
\* percentile counts towards the tail risk only if it is below 0.5.
C18_TailRiskBelowHalf ==
    (lab.op = "metrics" /\ lab.pc = "sensitivity" /\ lab.results # <<>>) =>
        LET scores == Scores(lab.results)
            range == FSub(MaxOf({scores[i] : i \in 1..Len(scores)}),
                          MinOf({scores[i] : i \in 1..Len(scores)}))
        IN lab.report.brittleness_score =
              Clamp(Weighted(lab.report.noise_sensitivity,
                             Float(CountWhere(lab.results, IsFailure), Len(lab.results)),
                             range, TailRiskBelowHalf(scores)))

ZeroDistribution ==
    [regrets |-> <<>>, mean_regret |-> 0, std_regret |-> 0, max_regret |-> 0,
     median_regret |-> 0, total_regret |-> 0, regret_percentiles |-> EmptyDict]

ZeroCollapse(metrics) ==
    /\ metrics.collapse_probability = 0
    /\ metrics.irreversible_collapse_rate = 0
    /\ metrics.early_collapse_rate = 0
    /\ metrics.late_collapse_rate = 0
    /\ metrics.mean_time_to_collapse = NoValue
    /\ metrics.std_time_to_collapse = NoValue

EmptyReport(report) ==
    /\ report.brittleness_score = 0
    /\ report.stability_score = One

\* C19: on an empty result list every analyzer returns its zero or empty value:
\* an empty survival curve with no median, no hazard rates, collapse rates 0.0
\* with times None, the zero regret distribution (outcome and relative) and an
\* empty cumulative map, brittleness 0.0 with stability 1.0, and diagnostics
\* built from those values.
C19_EmptyInputs ==
    (lab.op = "metrics" /\ lab.results = <<>>) =>
        /\ lab.pc = "survival" =>
              (lab.curve.timesteps = <<>> /\ lab.curve.survival_prob = <<>>
                  /\ lab.median = NoValue)
        /\ lab.pc = "hazard" => lab.hazard = <<>>
        /\ lab.pc = "collapse" => ZeroCollapse(lab.metrics)
        /\ lab.pc = "regret" => (lab.dist = ZeroDistribution /\ lab.cumulative = EmptyDict)
        /\ lab.pc = "relative" => lab.dist = ZeroDistribution
        /\ lab.pc = "sensitivity" => EmptyReport(lab.report)
        /\ lab.pc = "diagnostics" =>
              /\ lab.diagnostics.survival_curve.timesteps = <<>>
              /\ ZeroCollapse(lab.diagnostics.collapse_metrics)
              /\ lab.diagnostics.regret_distribution = ZeroDistribution
              /\ EmptyReport(lab.diagnostics.sensitivity_report)
              /\ lab.diagnostics.summary.total_runs = 0
              /\ lab.diagnostics.summary.mean_score = 0
              /\ lab.diagnostics.risk_profile.failure_probability = 0

\* Diagnostics were built from a SwarmResult with no results.
C19_Witness ==
    /\ lab.op = "metrics"
    /\ lab.pc = "diagnostics"
    /\ lab.results = <<>>
    /\ lab.diagnostics.risk_profile.overall_risk_level = "low"

RECURSIVE SumOf(_)
SumOf(counts) == IF counts = <<>> THEN 0 ELSE Head(counts) + SumOf(Tail(counts))

\* C27: the survival curve has one point per distinct total_steps, increasing;
\* at_risk counts the runs with total_steps >= t, events the failed runs with
\* total_steps = t; survival_prob is the previous value (1.0 at first) times
\* (at_risk - events) / at_risk when both are positive and the previous value
\* otherwise.  So survival_prob does not increase and lies in [0, 1], at_risk
\* does not increase, the events add up to the failed runs, and a point with
\* no failure leaves the curve where it was.
C27_KaplanMeierCurve ==
    (lab.op = "metrics" /\ lab.pc = "survival") =>
        LET curve == lab.curve
            results == lab.results
            runs_at == 1..Len(results)
            points == 1..Len(curve.timesteps)
            before(k) == IF k = 1 THEN One ELSE curve.survival_prob[k - 1]
        IN /\ {curve.timesteps[k] : k \in points} = {results[i].total_steps : i \in runs_at}
           /\ \A k \in points : k > 1 => curve.timesteps[k - 1] < curve.timesteps[k]
           /\ Len(curve.survival_prob) = Len(curve.timesteps)
           /\ Len(curve.at_risk) = Len(curve.timesteps)
           /\ Len(curve.events) = Len(curve.timesteps)
           /\ \A k \in points :
                 /\ curve.at_risk[k] = Cardinality({i \in runs_at :
                                           results[i].total_steps >= curve.timesteps[k]})
                 /\ curve.events[k] = Cardinality({i \in runs_at :
                                          /\ results[i].outcome = "failure"
                                          /\ results[i].total_steps = curve.timesteps[k]})
                 /\ curve.survival_prob[k] =
                       IF curve.at_risk[k] > 0 /\ curve.events[k] > 0
                       THEN FMul(before(k), FDiv(Float(curve.at_risk[k] - curve.events[k], 1),
                                                 Float(curve.at_risk[k], 1)))
                       ELSE before(k)
                 /\ curve.survival_prob[k] <= before(k)
                 /\ curve.survival_prob[k] >= 0
                 /\ curve.events[k] = 0 => curve.survival_prob[k] = before(k)
                 /\ k > 1 => curve.at_risk[k] <= curve.at_risk[k - 1]
           /\ SumOf(curve.events)
                 = Cardinality({i \in runs_at : results[i].outcome = "failure"})

\* a curve that drops at a failure and then stays level at a later time at
\* which runs ended without failing
C27_Witness ==
    /\ lab.op = "metrics"
    /\ lab.pc = "survival"
    /\ \E k \in 2..Len(lab.curve.timesteps) :
          /\ lab.curve.events[k] = 0
          /\ lab.curve.survival_prob[k] = lab.curve.survival_prob[k - 1]
          /\ lab.curve.survival_prob[k] < One
          /\ lab.curve.survival_prob[k] > 0

\* C29: the windows of get_hazard_rate(time_window) cover the observed range:
\* every failed run, also one that ended at the largest total_steps, falls in
\* exactly one reported window, and each reported hazard is the failures in
\* the window over at-risk-at-its-start times time_window.
C29_HazardCoversFailures ==
    (lab.op = "metrics" /\ lab.pc = "hazard") =>
        LET results == lab.results
            w == lab.time_window
            windows == 1..Len(lab.hazard)
            within(i, j) == /\ lab.hazard[j][1] <= results[i].total_steps
                            /\ results[i].total_steps < lab.hazard[j][1] + w
            failed == {i \in 1..Len(results) : results[i].outcome = "failure"}
        IN /\ \A i \in failed : Cardinality({j \in windows : within(i, j)}) = 1
           /\ \A j \in windows :
                 LET at_risk == Cardinality({i \in 1..Len(results) :
                                    results[i].total_steps >= lab.hazard[j][1]})
                     failures == Cardinality({i \in failed : within(i, j)})
                 IN lab.hazard[j][2] = FDiv(Float(failures, 1), Float(at_risk * w, 1))

\* C30: for a curve of a non-empty population survival_at(t) is the value of
\* the Kaplan-Meier step function at t: 1.0 when t is below the first
\* timestep of the curve, otherwise the survival_prob of the last point whose
\* timestep is at most t (the final value from the last timestep on).
C30_StepFunctionValue ==
    (lab.op = "metrics" /\ lab.pc = "survival_at" /\ lab.results # <<>>) =>
        LET reached == {k \in 1..Len(lab.curve.timesteps) : lab.curve.timesteps[k] <= lab.t}
        IN lab.returned = IF reached = {} THEN One
                          ELSE lab.curve.survival_prob[MaxOf(reached)]

\* C28: with at least one failed and one successful run, get_collapse_triggers
\* maps every event name to (share of the failed runs in whose list the event
\* is) / (share of the successful runs in whose list it is), a run counting
\* once however often the event is in its list, and to infinity when the event
\* is in a failed run and in no successful run; the items are in descending
\* order of relative risk.
C28_RelativeRiskByRuns ==
    (/\ lab.op = "triggers" /\ lab.pc = "returned"
     /\ \E i \in 1..Len(lab.results) : lab.results[i].outcome = "failure"
     /\ \E i \in 1..Len(lab.results) : lab.results[i].outcome = "success") =>
        LET results == lab.results
            With(outcome, name) ==
                {i \in 1..Len(results) :
                    /\ results[i].outcome = outcome
                    /\ \E j \in 1..Len(results[i].events_occurred) :
                          results[i].events_occurred[j].name = name}
            Share(outcome, name) ==
                FDiv(Float(Cardinality(With(outcome, name)), 1),
                     Float(Cardinality({i \in 1..Len(results) :
                                           results[i].outcome = outcome}), 1))
            items == 1..Len(lab.triggers)
        IN /\ \A k \in items :
                 LET name == lab.triggers[k][1]
                     risk == lab.triggers[k][2]
                 IN IF With("success", name) = {}
                    THEN With("failure", name) # {} => risk.infinite
                    ELSE /\ ~risk.infinite
                         /\ risk.value = FDiv(Share("failure", name),
                                              Share("success", name))
           /\ \A k, l \in items :
                 k < l => RiskAtLeast(lab.triggers[k][2], lab.triggers[l][2])

\* ------------------------------------------------ claims on the rule policy
\* the matching rules of the highest priority among the matching rules
TopMatching(rules, context) ==
    {r \in {rules[i] : i \in 1..Len(rules)} :
        /\ Matches(r, context)
        /\ \A i \in 1..Len(rules) :
              Matches(rules[i], context) => rules[i].priority <= r.priority}

\* the rules that match the context and whose action the context offers
Yielding(rules, context) ==
    {r \in {rules[i] : i \in 1..Len(rules)} :
        /\ Matches(r, context)
        /\ GetActionByName(context.available_actions, r.action_name) # NoAction}

\* C20: decide returns the action of the highest-priority rule whose condition
\* matches, the one given first among equals, whatever order the rules were
\* given in, so that a lower-priority rule is selected only when no
\* higher-priority rule matches; when no rule yields an available action it
\* returns the fallback action if the context offers it and the first available
\* action otherwise.
C20_HighestPriorityRuleWins ==
    (lab.op = "rules" /\ lab.pc = "decided" /\ lab.context.available_actions # <<>>) =>
        LET top == TopMatching(lab.policy._rules, lab.context)
            first == CHOOSE r \in top : \A q \in top : r.name <= q.name
            fallback == GetActionByName(lab.context.available_actions,
                                        lab.policy._fallback_action_name)
        IN /\ lab.raised = "None"
           /\ IF Yielding(lab.policy._rules, lab.context) # {}
              THEN /\ lab.returned = first.action_name
                   /\ lab.policy._last_matched_rule = first.name
              ELSE IF lab.policy._fallback_action_name # NoFallback /\ fallback # NoAction
              THEN lab.returned = fallback
              ELSE lab.returned = lab.context.available_actions[1]


\* ------------------------------------------- claims on the event generator
\* the events of the generator that an earlier firing keeps in cooldown at a
\* timestep: fired at t with cooldown c > 0, and timestep < t + c
SuppressedAt(event, timestep, firings) ==
    /\ event.cooldown > 0
    /\ \E f \in firings : f.name = event.name /\ timestep < f.timestep + event.cooldown

RECURSIVE AfterDraws(_, _)
AfterDraws(rng, n) == IF n = 0 THEN rng ELSE AfterDraws(RngAdvance(rng), n - 1)

CandidatesAt(events, timestep, firings) ==
    SelectSeq(events, LAMBDA event : ~SuppressedAt(event, timestep, firings))

\* C22: after an event with cooldown c > 0 has fired at timestep t, no later
\* sample_events call with a timestep below t + c returns it, and no random
\* value is drawn for it in such a call; every other event of the generator,
\* one with cooldown 0 or one whose cooldown has run out, gets exactly one draw;
\* two firings of one event are at least its cooldown apart.
C22_CooldownSuppresses ==
    (lab.op = "events" /\ lab.pc = "sampled") =>
        /\ \A i \in 1..Len(lab.occurred) :
              ~SuppressedAt(lab.occurred[i], lab.state.timestep, lab.earlier)
        /\ lab.rng = AfterDraws(lab.drawn_from,
                         Len(CandidatesAt(lab.events, lab.state.timestep, lab.earlier)))
        /\ \A i \in 1..Len(lab.events) : \A f, g \in lab.firings :
              (f.name = lab.events[i].name /\ g.name = f.name /\ f.timestep < g.timestep)
                  => g.timestep >= f.timestep + lab.events[i].cooldown

\* a call in which one event is held back by its cooldown while another fires,
\* and the held-back event has already fired again once after a cooldown
C22_Witness ==
    /\ lab.op = "events"
    /\ lab.pc = "sampled"
    /\ lab.occurred # <<>>
    /\ \E i \in 1..Len(lab.events) :
          /\ SuppressedAt(lab.events[i], lab.state.timestep, lab.earlier)
          /\ Cardinality({f \in lab.earlier : f.name = lab.events[i].name}) > 1



\* base probability times the modifier's multiplier, clamped to [0, 1]; hundredths
ClampedProduct(event, state) ==
    LET product == IF "modifier" \in DOMAIN event
                   THEN event.probability * Multiplier(event.modifier, state)
                   ELSE event.probability * 10
    IN IF product < 0 THEN 0 ELSE IF product > 100 THEN 100 ELSE product

\* the uniform draw made for the n-th candidate of a call, in hundredths
DrawFor(rng, n) == 10 * RngRandom(AfterDraws(rng, n - 1))

\* C23: a sample_events call returns exactly those events, not in cooldown,
\* whose uniform draw is below base probability times modifier(state) clamped
\* to [0, 1], in the generator's order; an event of probability 0 is never
\* returned whatever its modifier returns, and an event of probability 1 without
\* modifier is returned by every call in which it is not in cooldown.
C23_FiresBelowProbability ==
    (lab.op = "events" /\ lab.pc = "sampled") =>
        LET candidates == CandidatesAt(lab.events, lab.state.timestep, lab.earlier)
            firing == {n \in 1..Len(candidates) :
                          DrawFor(lab.drawn_from, n) < ClampedProduct(candidates[n], lab.state)}
            Sampled(event) == \E i \in 1..Len(lab.occurred) : lab.occurred[i] = event
        IN /\ Len(lab.occurred) = Cardinality(firing)
           /\ \A n \in 1..Len(candidates) : Sampled(candidates[n]) <=> n \in firing
           /\ \A i, j \in 1..Len(lab.occurred) :
                 i < j => \E m, n \in firing :
                             m < n /\ candidates[m] = lab.occurred[i]
                                   /\ candidates[n] = lab.occurred[j]
           /\ \A i \in 1..Len(lab.events) :
                 /\ lab.events[i].probability = 0 => ~Sampled(lab.events[i])
                 /\ (/\ lab.events[i].probability = 10
                     /\ "modifier" \notin DOMAIN lab.events[i]
                     /\ ~SuppressedAt(lab.events[i], lab.state.timestep, lab.earlier))
                        => Sampled(lab.events[i])

\* a call at a timestep where the modifier of a probability-0 event returns 2,
\* in which another event fired
C23_Witness ==
    /\ lab.op = "events"
    /\ lab.pc = "sampled"
    /\ lab.occurred # <<>>
    /\ \E i \in 1..Len(lab.events) :
          /\ lab.events[i] = WithModifier(Never, "late")
          /\ Multiplier("late", lab.state) = 20



\* the events_occurred list a state refers to, as it is in a heap
OccurredIn(state, hp) ==
    IF "events_occurred" \in DOMAIN state.metadata
    THEN hp[state.metadata["events_occurred"]]
    ELSE <<>>

\* C24: the default apply_event leaves the state it is given as it was: the
\* returned state's events_occurred is the given state's list plus one record
\* {name, timestep, severity}, every other field is the given state's, and the
\* given state's own list is the same after the call as before it.
C24_InputUntouched ==
    (lab.op = "events" /\ lab.pc = "applied") =>
        /\ OccurredIn(lab.state, lab.heap)
              = Append(OccurredIn(lab.given, lab.given_heap),
                       [name |-> lab.event.name, timestep |-> lab.given.timestep,
                        severity |-> lab.event.severity])
        /\ lab.state.timestep = lab.given.timestep
        /\ lab.state.variables = lab.given.variables
        /\ lab.state.is_terminal = lab.given.is_terminal
        /\ lab.state.terminal_reason = lab.given.terminal_reason
        /\ OccurredIn(lab.given, lab.heap) = OccurredIn(lab.given, lab.given_heap)



\* a failed run of one step whose events are a given list of occurrence records
FailedWith(events_occurred) ==
    [outcome |-> "failure", outcome_score |-> 0, total_steps |-> 1,
     events_occurred |-> events_occurred,
     initial_state |-> [variables |-> [value |-> 50]]]

\* C25: the record that apply_event adds for an event carries the event's name,
\* the timestep, the severity and the event's irreversibility flag, so that a
\* failed run with the returned state's records, one of them for an
\* irreversible event, counts in irreversible_collapse_rate.
C25_RecordCarriesFlag ==
    (lab.op = "events" /\ lab.pc = "applied") =>
        LET records == OccurredIn(lab.state, lab.heap)
            record == records[Len(records)]
        IN /\ record.name = lab.event.name
           /\ record.timestep = lab.given.timestep
           /\ record.severity = lab.event.severity
           /\ "is_irreversible" \in DOMAIN record
           /\ record.is_irreversible = lab.event.is_irreversible
           /\ lab.event.is_irreversible =>
                 ComputeCollapseMetrics(<<FailedWith(records)>>, 1)
                     .irreversible_collapse_rate = One


====
